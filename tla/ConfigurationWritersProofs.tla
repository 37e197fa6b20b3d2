---------------------- MODULE ConfigurationWritersProofs ----------------------
(***************************************************************************)
(* Safety of the writers of the configuration, for every number of         *)
(* clients, domains and addresses, of requests, restarts and sessions.     *)
(*                                                                         *)
(* ControlInv holds always.  It says what the locks, the task slot and the *)
(* operations on domains keep apart (Exclusion, Operations), that a quick  *)
(* start built the Runner of the next session (Sessions), and of which     *)
(* saves a request can have missed (SinceInv), from which                  *)
(* OnlyKnownOverwrites follows.                                            *)
(*                                                                         *)
(* DataInv holds while nothing was written over.  Its key is Told1: at     *)
(* most one save is unpublished, and everybody else who holds a view of    *)
(* the memory has missed it, or any save.  So whoever saves or publishes   *)
(* without an overwrite does it alone, and what it read is still true:     *)
(*   FileInv    the file is what the one writer saved, or config.get shows *)
(*              from it what is in memory                                  *)
(*   ViewInv    what each request read, at each of its steps               *)
(*   WorkerInv  the same for the worker, and what it gave its Runner       *)
(*   RunnerInv  the current Runner has the settings in memory and, but for *)
(*              domains at work or failed, its domains                     *)
(*   PolicyInv  no domain that was reported as removed is in the policy    *)
(*                                                                         *)
(* With AdditionPending, Exclusion shows that no circle of requests and    *)
(* worker waits for itself.                                                *)
(***************************************************************************)
EXTENDS ConfigurationWriters, TLAPS

\* Steps at which a configuration is saved or looked at.
Updating == {"update_save", "update_reload", "update_publish", "update_restore"}
QuickSteps == {"quick_execute", "quick_return", "quick_activate"}
Saved == {"update_reload", "update_publish", "update_restore", "add_publish",
          "run_publish", "quick_activate"} \cup ApplySteps
Working == worker.pc \in {"poll", "refresh", "decide", "save", "publish", "rollback"}
HoldsSlot == worker.pc \in {"refresh", "decide", "save", "publish", "rollback"}
\* Requests that go on with a copy of any age, or beside the lock of the others.
Stale == Updating \cup ApplySteps \cup {"edit"}
Looks == worker.pc \in {"refresh", "decide", "save", "publish"}
           \/ (worker.pc = "poll" /\ Removes)

\* A request has the configurations that its step uses.
ClientHas(r) ==
  /\ r.pc \in Updating \cup {"edit", "add_publish"} \cup QuickSteps \cup ApplySteps =>
       r.next \in Config
  /\ r.pc \in Updating \cup {"add_publish"} \cup ApplySteps => r.before \in Config
HasConfigs ==
  /\ \A c \in Clients : ClientHas(client[c])
  /\ Looks => worker.base \in Config
  /\ Working => worker.domain \in Domains
  /\ ~policy.exists => policy.maps = NoMaps

\* The locks, the slot and the operations on domains.
Exclusion ==
  /\ \A c, e \in Clients : client[c].pc \in LockSteps /\ client[e].pc \in LockSteps => c = e
  /\ Working => \A c \in Clients : client[c].pc \notin Updating \cup {"add_publish"}
  /\ HoldsSlot => \A c \in Clients : client[c].pc \notin {"run_execute", "quick_execute"}
  /\ worker.pc = "publish" => \A c \in Clients : client[c].pc \notin LockSteps \ {"quick_build"}
  /\ \A c, e \in Clients : At(c, "update_publish") => client[e].pc \notin ApplySteps

Operations ==
  /\ \A d, e \in Domains : ops[d] \in Active /\ ops[e] \in Active => d = e
  /\ \A d \in Domains : ops[d] \in Active =>
       Working \/ \E c \in Clients : At(c, "add_publish")
  /\ Working => ops[worker.domain] \in Active

Sessions ==
  /\ worker.session <= session
  /\ \A c \in Clients :
       /\ At(c, "quick_build") => session < MaxSessions
       /\ client[c].pc \in QuickSteps =>
            client[c].session = session + 1 /\ runner[session + 1] = SettingsOf(client[c].next)
       /\ At(c, "run_execute") => client[c].session = session

SinceInv ==
  /\ \A c \in Clients :
       /\ client[c].pc \notin Stale => client[c].since \subseteq {"apply", "restart"}
       /\ client[c].pc \notin Viewing => client[c].since = {}
  /\ worker.since \subseteq {"apply", "restart", "run", "quick"}

\* Whoever looks while a save is unpublished knows of one; who edits a copy does
\* not look yet.
Written(r) == r.pc \in Saved
Told1 ==
  /\ \A c \in Clients : Written(client[c]) =>
       /\ client[c].since = {}
       /\ \A e \in Clients \ {c} : client[e].pc \in Viewing \ {"edit"} => client[e].since # {}
       /\ Looks => worker.since # {}
  /\ worker.pc = "publish" =>
       /\ worker.since = {}
       /\ \A e \in Clients : client[e].pc \in Viewing \ {"edit"} => client[e].since # {}

Quiescent == worker.pc # "publish" /\ \A c \in Clients : ~Written(client[c])
InForce == ~unrestored /\ ~Waits
\* What was read from the file is in memory, unless it waits for a restart.
Current(cfg) == ~unrestored /\ cfg.endpoint = config.endpoint => cfg = config
\* What the file has.
FileInv ==
  /\ \A c \in Clients : Written(client[c]) =>
       file = IF At(c, "run_publish") THEN [config EXCEPT !.maps = client[c].report]
              ELSE client[c].next
  /\ worker.pc = "publish" => file = worker.base
  /\ Quiescent /\ InForce => Desired = config

\* What the requests have seen.
ViewInv ==
  \A c \in Clients :
    LET r == client[c] IN
    /\ r.pc \in {"update_save", "update_reload", "update_restore"} /\ r.since = {} =>
         /\ Current(r.before)
         /\ At(c, "update_save") => r.hot = Hot(r.next)
    /\ r.pc \in ApplySteps =>
         r.before = config /\ SettingsOf(r.next) = SettingsOf(config) /\ r.session = session
    /\ At(c, "add_publish") =>
         /\ r.before = config /\ r.next.managed = config.managed
         /\ \A d \in Domains : ops[d] = "pending" => r.next.domains = config.domains \cup {d}
    /\ r.pc \in QuickSteps => r.next.domains = config.domains

Edited == worker.pc \in {"save", "publish"}
WorkerInv ==
  /\ Working =>
       IF worker.adds THEN config.domains = worker.before \cup {worker.domain}
       ELSE worker.before = config.domains
  /\ HoldsSlot /\ worker.adds => worker.base.domains = config.domains
  /\ Removes /\ Edited => worker.base.domains = Target
  /\ Looks /\ worker.since = {} =>
       /\ worker.base.managed = config.managed
       /\ Removes /\ ~Edited => worker.base.domains = config.domains
       /\ worker.pc # "poll" => session = worker.session
       /\ Removes /\ worker.pc = "decide" /\ ~worker.guarded => ~policy.exists
       /\ Removes /\ Edited => ~InPolicy(worker.domain)
  /\ worker.pc \in {"decide", "save", "publish"} => runner[worker.session].domains = Target
  /\ HoldsSlot /\ session # worker.session => runner[session].domains = config.domains

NoneReloads == \A c \in Clients : ~At(c, "update_publish")
RunnerInv ==
  /\ \A c \in Clients : At(c, "update_publish") =>
       runner[session] = SettingsOf(client[c].next)
  /\ NoneReloads =>
       /\ runner[session].managed = config.managed
       /\ \A d \in Domains : (d \in config.domains) # (d \in runner[session].domains) =>
            ops[d] \in Active \cup {"failed"}

PolicyInv ==
  policy.reported =>
    /\ \A c \in Clients : At(c, "update_publish") /\ policy.exists =>
         Mapped(policy.maps) \subseteq client[c].next.domains
    /\ NoneReloads =>
         \A d \in Domains \ config.domains : ops[d] = "removed" => ~InPolicy(d)

DataInv == Told1 /\ FileInv /\ ViewInv /\ WorkerInv /\ RunnerInv /\ PolicyInv

ControlInv == TypeOK /\ HasConfigs /\ Exclusion /\ Operations /\ Sessions /\ SinceInv
                /\ OnlyKnownOverwrites
IInv == ControlInv /\ (lost = {} => DataInv)

-----------------------------------------------------------------------------
(* Configurations, requests and the worker, one field at a time *)

\* Pruned maps are maps.
LEMMA PrunedType ==
  ASSUME NEW m \in Maps, NEW D
  PROVE  Pruned(m, D) \in Maps
  BY DEF Pruned, Maps

LEMMA ConfigFields ==
  /\ \A r \in Config : \A x \in BOOLEAN : [r EXCEPT !.managed = x] \in Config
  /\ \A r \in Config : \A x \in 0..1 : [r EXCEPT !.endpoint = x] \in Config
  /\ \A r \in Config : \A x \in Mihomos : [r EXCEPT !.mihomo = x] \in Config
  /\ \A r \in Config : \A x \in SUBSET Domains : [r EXCEPT !.domains = x] \in Config
  /\ \A r \in Config : \A x \in Maps : [r EXCEPT !.maps = x] \in Config
<1> DEFINE S == SUBSET Domains
           E == 0..1
           M == Mihomos
<1>1. \A r \in Config : r \in [managed : BOOLEAN, endpoint : E, mihomo : M, domains : S, maps : Maps]
  BY DEF Config
<1>2. \A r \in [managed : BOOLEAN, endpoint : E, mihomo : M, domains : S, maps : Maps] : r \in Config
  BY DEF Config
<1> HIDE DEF S, E, M
<1> DEFINE C == [managed : BOOLEAN, endpoint : E, mihomo : M, domains : S, maps : Maps]
<1>3. \A r \in C : \A x \in BOOLEAN : [r EXCEPT !.managed = x] \in C
  BY SMT
<1>4. \A r \in C : \A x \in E : [r EXCEPT !.endpoint = x] \in C
  BY SMT
<1>8. \A r \in C : \A x \in M : [r EXCEPT !.mihomo = x] \in C
  BY SMT
<1>5. \A r \in C : \A x \in S : [r EXCEPT !.domains = x] \in C
  BY SMT
<1>6. \A r \in C : \A x \in Maps : [r EXCEPT !.maps = x] \in C
  BY SMT
<1> HIDE DEF C
<1>7. Config = C
  BY <1>1, <1>2 DEF C
<1> QED
  BY <1>3, <1>4, <1>5, <1>6, <1>7, <1>8 DEF S, E, M

\* A configuration that is saved as it is in memory is shown as it is.
LEMMA ShownAsIs ==
  ASSUME NEW cfg \in Config
  PROVE  [cfg EXCEPT !.mihomo = cfg.mihomo] = cfg
  BY DEF Config

\* What is loaded from a file is a configuration with the file's settings, and is
\* shown as it was loaded.
LEMMA LoadedType ==
  ASSUME NEW cfg \in Config, NEW x \in Loaded(cfg)
  PROVE  /\ x[1] \in Config /\ x[2] \in BOOLEAN
         /\ SettingsOf(x[1]) = SettingsOf(cfg) /\ x[1].endpoint = cfg.endpoint
         /\ x[1].domains = cfg.domains /\ x[1].managed = cfg.managed
         /\ (IF x[2] THEN [cfg EXCEPT !.mihomo = x[1].mihomo] ELSE cfg) = x[1]
<1>1. CASE x = <<cfg, FALSE>>
  BY <1>1
<1>2. CASE \E m \in Controllers : x = <<[cfg EXCEPT !.mihomo = m], TRUE>>
  <2>1. PICK m \in Controllers : x = <<[cfg EXCEPT !.mihomo = m], TRUE>>
    BY <1>2
  <2> DEFINE y == [cfg EXCEPT !.mihomo = m]
  <2>2. y \in Config
    BY ConfigFields DEF Mihomos
  <2>3. /\ y.mihomo = m /\ y.domains = cfg.domains /\ y.managed = cfg.managed
        /\ y.endpoint = cfg.endpoint
    BY DEF Config
  <2>4. x[1] = y /\ x[2] = TRUE
    BY <2>1
  <2> HIDE DEF y
  <2>5. [cfg EXCEPT !.mihomo = y.mihomo] = y
    BY <2>3 DEF y
  <2> QED
    BY <2>2, <2>3, <2>4, <2>5 DEF SettingsOf
<1> QED
  BY <1>1, <1>2 DEF Loaded

LEMMA ClientFields ==
  /\ \A r \in Client : \A x \in ClientSteps : [r EXCEPT !.pc = x] \in Client
  /\ \A r \in Client : \A x \in Config \cup {NoConfig} : [r EXCEPT !.next = x] \in Client
  /\ \A r \in Client : \A x \in Config \cup {NoConfig} : [r EXCEPT !.before = x] \in Client
  /\ \A r \in Client : \A x \in 0..MaxSessions : [r EXCEPT !.session = x] \in Client
  /\ \A r \in Client : \A x \in Maps : [r EXCEPT !.report = x] \in Client
  /\ \A r \in Client : \A x \in BOOLEAN : [r EXCEPT !.hot = x] \in Client
  /\ \A r \in Client : \A x \in SUBSET Kinds : [r EXCEPT !.since = x] \in Client
<1> DEFINE Cs == Config \cup {NoConfig}
           Ss == 0..MaxSessions
           Ks == SUBSET Kinds
           C == [pc : ClientSteps, next : Cs, before : Cs, session : Ss, report : Maps,
                 hot : BOOLEAN, since : Ks]
<1>1. Client = C
  BY DEF Client
<1> HIDE DEF Cs, Ss, Ks
<1>2. /\ \A r \in C : \A x \in ClientSteps : [r EXCEPT !.pc = x] \in C
      /\ \A r \in C : \A x \in Cs : [r EXCEPT !.next = x] \in C
  BY SMT
<1>3. /\ \A r \in C : \A x \in Cs : [r EXCEPT !.before = x] \in C
      /\ \A r \in C : \A x \in Ss : [r EXCEPT !.session = x] \in C
  BY SMT
<1>4. /\ \A r \in C : \A x \in Maps : [r EXCEPT !.report = x] \in C
      /\ \A r \in C : \A x \in BOOLEAN : [r EXCEPT !.hot = x] \in C
      /\ \A r \in C : \A x \in Ks : [r EXCEPT !.since = x] \in C
  BY SMT
<1> HIDE DEF C
<1> QED
  BY <1>1, <1>2, <1>3, <1>4 DEF Cs, Ss, Ks

LEMMA WorkerFields ==
  /\ \A r \in Worker : \A x \in WorkerSteps : [r EXCEPT !.pc = x] \in Worker
  /\ \A r \in Worker : \A x \in BOOLEAN : [r EXCEPT !.adds = x] \in Worker
  /\ \A r \in Worker : \A x \in Domains \cup {NoDomain} : [r EXCEPT !.domain = x] \in Worker
  /\ \A r \in Worker : \A x \in Config \cup {NoConfig} : [r EXCEPT !.base = x] \in Worker
  /\ \A r \in Worker : \A x \in SUBSET Domains : [r EXCEPT !.before = x] \in Worker
  /\ \A r \in Worker : \A x \in 0..MaxSessions : [r EXCEPT !.session = x] \in Worker
  /\ \A r \in Worker : \A x \in BOOLEAN : [r EXCEPT !.refreshed = x] \in Worker
  /\ \A r \in Worker : \A x \in BOOLEAN : [r EXCEPT !.guarded = x] \in Worker
  /\ \A r \in Worker : \A x \in SUBSET Kinds : [r EXCEPT !.since = x] \in Worker
<1> DEFINE Cs == Config \cup {NoConfig}
           Ss == 0..MaxSessions
           Ds == Domains \cup {NoDomain}
           Bs == SUBSET Domains
           Ks == SUBSET Kinds
           W == [pc : WorkerSteps, adds : BOOLEAN, domain : Ds, base : Cs, before : Bs,
                 session : Ss, refreshed : BOOLEAN, guarded : BOOLEAN, since : Ks]
<1>1. Worker = W
  BY DEF Worker
<1> HIDE DEF Cs, Ss, Ds, Bs, Ks
<1>2. /\ \A r \in W : \A x \in WorkerSteps : [r EXCEPT !.pc = x] \in W
      /\ \A r \in W : \A x \in BOOLEAN : [r EXCEPT !.adds = x] \in W
  BY SMT
<1>3. /\ \A r \in W : \A x \in Ds : [r EXCEPT !.domain = x] \in W
      /\ \A r \in W : \A x \in Cs : [r EXCEPT !.base = x] \in W
  BY SMT
<1>4. /\ \A r \in W : \A x \in Bs : [r EXCEPT !.before = x] \in W
      /\ \A r \in W : \A x \in Ss : [r EXCEPT !.session = x] \in W
  BY SMT
<1>5. /\ \A r \in W : \A x \in BOOLEAN : [r EXCEPT !.refreshed = x] \in W
      /\ \A r \in W : \A x \in BOOLEAN : [r EXCEPT !.guarded = x] \in W
      /\ \A r \in W : \A x \in Ks : [r EXCEPT !.since = x] \in W
  BY SMT
<1> HIDE DEF W
<1> QED
  BY <1>1, <1>2, <1>3, <1>4, <1>5 DEF Cs, Ss, Ds, Bs, Ks

LEMMA NoMapsType == NoMaps \in Maps
  BY DEF NoMaps, Maps

LEMMA IdleType ==
  /\ Idle \in Client /\ Idle.pc = "idle" /\ Idle.since = {}
  BY NoMapsType, BoundsAreNaturals, SMT DEF Idle, Client, ClientSteps

LEMMA NoWorkerType ==
  /\ NoWorker \in Worker /\ NoWorker.pc = "idle" /\ NoWorker.since = {}
  /\ NoWorker.session = 0
  BY BoundsAreNaturals, SMT DEF NoWorker, Worker, WorkerSteps

LEMMA SettingsType ==
  ASSUME NEW cfg \in Config
  PROVE  SettingsOf(cfg) \in Settings
  BY DEF SettingsOf, Settings, Config

\* What a step of one request does to the others: nothing, or they hear of a save.
Hears(new, old, kinds) ==
  /\ new.pc = old.pc /\ new.next = old.next /\ new.before = old.before
  /\ new.session = old.session /\ new.report = old.report /\ new.hot = old.hot
  /\ new.since = IF old.pc \in Viewing THEN old.since \cup kinds ELSE old.since
WorkerHears(kinds) ==
  /\ worker' \in Worker
  /\ worker'.pc = worker.pc /\ worker'.adds = worker.adds /\ worker'.domain = worker.domain
  /\ worker'.base = worker.base /\ worker'.before = worker.before
  /\ worker'.session = worker.session /\ worker'.refreshed = worker.refreshed
  /\ worker'.guarded = worker.guarded
  /\ worker'.since = IF worker.pc \in Viewing THEN worker.since \cup kinds ELSE worker.since
ClientMoves(c, new, kinds) ==
  /\ client' \in [Clients -> Client] /\ client'[c] = new
  /\ \A e \in Clients \ {c} : Hears(client'[e], client[e], kinds)

\* A request that hears of a save only gets a longer history.
LEMMA ToldClient ==
  ASSUME NEW r \in Client, NEW k \in Kinds
  PROVE  Told(r, k) \in Client /\ Hears(Told(r, k), r, {k})
<1>1. r.since \cup {k} \in SUBSET Kinds
  BY DEF Client
<1>2. Told(r, k) \in Client
  BY <1>1, ClientFields DEF Told
<1>3. Hears(Told(r, k), r, {k})
  BY DEF Told, Hears, Client
<1> QED
  BY <1>2, <1>3

LEMMA ToldWorker ==
  ASSUME worker \in Worker, NEW k \in Kinds, worker' = Told(worker, k)
  PROVE  WorkerHears({k})
<1>1. worker.since \cup {k} \in SUBSET Kinds
  BY DEF Worker
<1>2. worker' \in Worker
  BY <1>1, WorkerFields DEF Told
<1> QED
  BY <1>2 DEF Told, WorkerHears, Worker

LEMMA WorkerStays ==
  ASSUME worker \in Worker, worker' = worker
  PROVE  WorkerHears({})
  BY DEF WorkerHears

LEMMA ClientStep ==
  ASSUME client \in [Clients -> Client], NEW c \in Clients, NEW new \in Client,
         client' = [client EXCEPT ![c] = new]
  PROVE  ClientMoves(c, new, {})
  BY DEF ClientMoves, Hears

\* What Saves does to everybody.
LEMMA ClientSaves ==
  ASSUME client \in [Clients -> Client], NEW c \in Clients, NEW then \in Client,
         NEW kind \in Kinds, NEW cfg, NEW since, worker \in Worker,
         Saves(c, kind, cfg, since, then)
  PROVE  /\ ClientMoves(c, then, {kind}) /\ WorkerHears({kind})
         /\ file' = cfg /\ lost' = lost \cup ({kind} \X since)
<1>1. client' = [x \in Clients |-> IF x = c THEN then ELSE Told(client[x], kind)]
  BY DEF Saves
<1>2. \A x \in Clients : Told(client[x], kind) \in Client
                         /\ Hears(Told(client[x], kind), client[x], {kind})
  BY ToldClient
<1>3. ClientMoves(c, then, {kind})
  BY <1>1, <1>2 DEF ClientMoves
<1> QED
  BY <1>3, ToldWorker DEF Saves

-----------------------------------------------------------------------------
(* What a step of one request must respect to keep locks and history *)

\* The request has the configurations of its new step.
LEMMA KeepsConfigs ==
  ASSUME ControlInv, NEW c \in Clients, NEW new \in Client, NEW kinds,
         ClientMoves(c, new, kinds), WorkerHears(kinds), ClientHas(new),
         ~policy'.exists => policy'.maps = NoMaps
  PROVE  HasConfigs'
<1>1. \A e \in Clients : ClientHas(client[e])
  BY DEF ControlInv, HasConfigs
<1>2. \A e \in Clients : ClientHas(client'[e])
  BY <1>1 DEF ClientMoves, Hears, ClientHas
<1>3. /\ Looks' => worker'.base \in Config
      /\ Working' => worker'.domain \in Domains
  BY DEF ControlInv, HasConfigs, WorkerHears, Looks, Working, Removes
<1> QED
  BY <1>2, <1>3 DEF HasConfigs, ClientHas

\* The step takes no lock that somebody has.
LEMMA KeepsExclusion ==
  ASSUME ControlInv, NEW c \in Clients, NEW new \in Client, NEW kinds,
         ClientMoves(c, new, kinds), WorkerHears(kinds),
         new.pc \in LockSteps => client[c].pc \in LockSteps \/ LockFree,
         new.pc \in Updating \cup {"add_publish"} =>
           client[c].pc \in Updating \cup {"add_publish"} \/ ~Working,
         new.pc \in {"run_execute", "quick_execute"} => ~HoldsSlot,
         new.pc \in LockSteps \ {"quick_build"} =>
           client[c].pc \in LockSteps \ {"quick_build"} \/ worker.pc # "publish",
         new.pc = "update_publish" => \A e \in Clients : client[e].pc \notin ApplySteps,
         new.pc \in ApplySteps =>
           client[c].pc \in ApplySteps \/ \A e \in Clients : ~At(e, "update_publish")
  PROVE  Exclusion'
<1>1. \A e \in Clients \ {c} : client'[e].pc = client[e].pc
  BY DEF ClientMoves, Hears
<1>2. client'[c] = new /\ worker'.pc = worker.pc
  BY DEF ClientMoves, WorkerHears
<1>3. Exclusion
  BY DEF ControlInv
<1>4. ~(new.pc = "update_publish" /\ new.pc \in ApplySteps)
  BY DEF ApplySteps
<1>5. \A e, g \in Clients :
        client'[e].pc \in LockSteps /\ client'[g].pc \in LockSteps => e = g
  BY <1>1, <1>2, <1>3 DEF Exclusion, LockFree
<1>6. /\ Working' => \A e \in Clients : client'[e].pc \notin Updating \cup {"add_publish"}
      /\ HoldsSlot' => \A e \in Clients : client'[e].pc \notin {"run_execute", "quick_execute"}
      /\ worker'.pc = "publish" =>
           \A e \in Clients : client'[e].pc \notin LockSteps \ {"quick_build"}
  BY <1>1, <1>2, <1>3 DEF Exclusion, Working, HoldsSlot
<1>7. \A e, g \in Clients :
        client'[e].pc = "update_publish" => client'[g].pc \notin ApplySteps
  BY <1>1, <1>2, <1>3, <1>4 DEF Exclusion, At
<1> QED
  BY <1>5, <1>6, <1>7 DEF Exclusion, At

\* No operation on a domain begins or ends, and none loses its request.
LEMMA KeepsOperations ==
  ASSUME ControlInv, NEW c \in Clients, NEW new \in Client, NEW kinds,
         ClientMoves(c, new, kinds), WorkerHears(kinds), ops' = ops,
         client[c].pc # "add_publish"
  PROVE  Operations'
<1>1. \A e \in Clients \ {c} : client'[e].pc = client[e].pc
  BY DEF ClientMoves, Hears
<1>2. \A e \in Clients : At(e, "add_publish") => At(e, "add_publish")'
  BY <1>1 DEF At
<1>3. Working' = Working /\ worker'.domain = worker.domain
  BY DEF Working, WorkerHears
<1> QED
  BY <1>2, <1>3 DEF ControlInv, Operations

\* The Runner of the next session belongs to the quick start that holds the lock.
LEMMA KeepsSessions ==
  ASSUME ControlInv, NEW c \in Clients, NEW new \in Client, NEW kinds,
         ClientMoves(c, new, kinds), WorkerHears(kinds), session' = session,
         runner'[session + 1] = runner[session + 1] \/ client[c].pc \in LockSteps,
         new.pc = "quick_build" => session < MaxSessions,
         new.pc \in QuickSteps =>
           new.session = session + 1 /\ runner'[session + 1] = SettingsOf(new.next),
         new.pc = "run_execute" => new.session = session
  PROVE  Sessions'
<1>1. \A e \in Clients \ {c} :
        /\ client'[e].pc = client[e].pc /\ client'[e].next = client[e].next
        /\ client'[e].session = client[e].session
  BY DEF ClientMoves, Hears
<1>2. client'[c] = new /\ worker'.session = worker.session
  BY DEF ClientMoves, WorkerHears
<1>3. QuickSteps \subseteq LockSteps
  BY DEF QuickSteps, LockSteps
<1>4. \A e \in Clients \ {c} :
        client[e].pc \in QuickSteps => runner'[session + 1] = runner[session + 1]
  BY <1>3 DEF ControlInv, Exclusion
<1> QED
  BY <1>1, <1>2, <1>4 DEF ControlInv, Sessions, At

\* Who hears of a save may hear of it: its kind is one that may be written over.
LEMMA KeepsSince ==
  ASSUME ControlInv, NEW c \in Clients, NEW new \in Client, NEW kinds,
         ClientMoves(c, new, kinds), WorkerHears(kinds),
         new.pc \notin Stale => new.since \subseteq {"apply", "restart"},
         new.pc \notin Viewing => new.since = {},
         \A e \in Clients \ {c} :
           client[e].pc \in Viewing \ Stale => kinds \subseteq {"apply", "restart"},
         worker.pc \in Viewing => kinds \subseteq {"apply", "restart", "run", "quick"}
  PROVE  SinceInv'
<1>1. \A e \in Clients \ {c} :
        /\ client'[e].pc \notin Stale => client'[e].since \subseteq {"apply", "restart"}
        /\ client'[e].pc \notin Viewing => client'[e].since = {}
  BY DEF ControlInv, SinceInv, ClientMoves, Hears
<1>2. worker'.since \subseteq {"apply", "restart", "run", "quick"}
  BY DEF ControlInv, SinceInv, WorkerHears
<1> QED
  BY <1>1, <1>2 DEF SinceInv, ClientMoves

\* What was saved and is not published, as seen by whoever takes a lock or the
\* slot: only domain apply goes beside them.
LEMMA UnpublishedKinds ==
  ASSUME TypeOK
  PROVE  /\ Unpublished \subseteq Kinds
         /\ Unpublished = {} <=> Quiescent
         /\ worker.pc # "publish" /\ (\A c \in Clients : client[c].pc \notin Saved \ ApplySteps)
              => Unpublished \subseteq {"apply"}
         /\ worker.pc # "publish" /\ (\A c \in Clients : client[c].pc \notin Updating \cup {"add_publish"})
              => Unpublished \subseteq {"apply", "run", "quick"}
         /\ NotInMemory \subseteq Kinds /\ Unpublished \subseteq NotInMemory
         /\ NotInMemory \subseteq Unpublished \cup {"restart"}
         /\ NotInMemory = {} <=> Quiescent /\ ~Waits
<1>1. DOMAIN SavedBy = Saved
  BY DEF SavedBy, Saved, ApplySteps
<1>2. Range(client) = {client[c] : c \in Clients}
  BY DEF TypeOK, Range
<1>3. Unpublished = {SavedBy[r.pc] : r \in {x \in {client[c] : c \in Clients} : x.pc \in Saved}}
                      \cup (IF worker.pc = "publish" THEN {WorkerKind} ELSE {})
  BY <1>1, <1>2 DEF Unpublished
<1>4. \A s \in Saved : SavedBy[s] \in Kinds
  BY DEF SavedBy, Saved, ApplySteps, Kinds
<1>5. \A s \in ApplySteps : SavedBy[s] = "apply"
  BY DEF SavedBy, ApplySteps
<1>6. WorkerKind \in Kinds
  BY DEF WorkerKind, Kinds
<1>7. Unpublished \subseteq Kinds
  BY <1>3, <1>4, <1>6
<1>8. Unpublished = {} <=> Quiescent
  <2>1. ASSUME NEW c \in Clients, client[c].pc \in Saved
        PROVE  SavedBy[client[c].pc] \in Unpublished
    BY <2>1, <1>3
  <2>2. worker.pc = "publish" => WorkerKind \in Unpublished
    BY <1>3
  <2>3. Quiescent => Unpublished = {}
    BY <1>3 DEF Quiescent, Written
  <2> QED
    BY <2>1, <2>2, <2>3 DEF Quiescent, Written
<1>9. worker.pc # "publish" /\ (\A c \in Clients : client[c].pc \notin Saved \ ApplySteps)
        => Unpublished \subseteq {"apply"}
  BY <1>3, <1>5
<1>10. \A s \in Saved \ (Updating \cup {"add_publish"}) : SavedBy[s] \in {"apply", "run", "quick"}
  BY DEF SavedBy, Saved, Updating, ApplySteps
<1>11. worker.pc # "publish" /\ (\A c \in Clients : client[c].pc \notin Updating \cup {"add_publish"})
         => Unpublished \subseteq {"apply", "run", "quick"}
  BY <1>3, <1>10
<1>12. /\ NotInMemory \subseteq Kinds /\ Unpublished \subseteq NotInMemory
       /\ NotInMemory \subseteq Unpublished \cup {"restart"}
       /\ NotInMemory = {} <=> Quiescent /\ ~Waits
  BY <1>7, <1>8 DEF NotInMemory, Kinds
<1> QED
  BY <1>7, <1>8, <1>9, <1>11, <1>12

\* The holder of configurationMutex misses nothing but saves of domain apply, and
\* what waits for a restart.
LEMMA LockedUnpublished ==
  ASSUME ControlInv, NEW c \in Clients, client[c].pc \notin Saved, worker.pc # "publish",
         LockFree \/ client[c].pc \in LockSteps
  PROVE  Unpublished \subseteq {"apply"} /\ NotInMemory \subseteq {"apply", "restart"}
<1>1. Saved \ ApplySteps \subseteq LockSteps
  BY DEF Saved, ApplySteps, LockSteps
<1>2. \A e \in Clients : client[e].pc \notin Saved \ ApplySteps
  BY <1>1 DEF ControlInv, Exclusion, LockFree
<1>3. Unpublished \subseteq {"apply"}
  BY <1>2, UnpublishedKinds DEF ControlInv
<1> QED
  BY <1>3, UnpublishedKinds DEF ControlInv

-----------------------------------------------------------------------------
(* What a step of one request must respect to keep the data *)

\* At most one save is unpublished, and whoever saves is told of none.
LEMMA OneWriter ==
  ASSUME Told1, NEW c \in Clients, Written(client[c])
  PROVE  /\ \A e \in Clients \ {c} : ~Written(client[e])
         /\ worker.pc # "publish"
<1>1. Saved \subseteq Viewing \ {"edit"}
  BY DEF Saved, Viewing, ApplySteps
<1> QED
  BY <1>1 DEF Told1, Written

\* Who has missed no save is alone.
LEMMA SaverAlone ==
  ASSUME Told1, NEW c \in Clients, client[c].pc \in Viewing \ {"edit"}, client[c].since = {}
  PROVE  /\ \A e \in Clients \ {c} : ~Written(client[e])
         /\ worker.pc # "publish"
  BY DEF Told1

\* A view is taken while it is known what is unpublished, or kept.
LEMMA ToldWhileLooking ==
  ASSUME TypeOK, Told1, NEW c \in Clients, NEW new \in Client, ClientMoves(c, new, {}),
         WorkerHears({}), ~Written(new),
         new.pc \in Viewing \ {"edit"} =>
           \/ client[c].pc \in Viewing \ {"edit"} /\ new.since = client[c].since
           \/ Unpublished \subseteq new.since
  PROVE  Told1'
<1>1. \A e \in Clients \ {c} : client'[e].pc = client[e].pc /\ client'[e].since = client[e].since
  BY DEF ClientMoves, Hears, TypeOK, Client
<1>2. client'[c] = new /\ worker'.pc = worker.pc /\ worker'.since = worker.since
      /\ Looks' = Looks
  BY DEF ClientMoves, WorkerHears, Looks, Removes, TypeOK, Worker
<1>3. Unpublished \subseteq new.since /\ new.since = {} => Quiescent
  BY UnpublishedKinds
<1>4. \A e \in Clients : Written(client'[e]) =>
        e # c /\ Written(client[e]) /\ (new.pc \in Viewing \ {"edit"} => new.since # {})
  BY <1>1, <1>2, <1>3 DEF Written, Told1, Quiescent
<1>5. \A e \in Clients : Written(client'[e]) =>
        /\ client'[e].since = {}
        /\ \A g \in Clients \ {e} : client'[g].pc \in Viewing \ {"edit"} => client'[g].since # {}
        /\ Looks' => worker'.since # {}
  BY <1>1, <1>2, <1>4 DEF Told1
<1>6. worker'.pc = "publish" =>
        /\ worker'.since = {}
        /\ \A e \in Clients : client'[e].pc \in Viewing \ {"edit"} => client'[e].since # {}
  BY <1>1, <1>2, <1>3 DEF Told1, Quiescent
<1> QED
  BY <1>5, <1>6 DEF Told1

\* From one step with an unpublished save to the next.
LEMMA ToldOnward ==
  ASSUME TypeOK, Told1, NEW c \in Clients, NEW new \in Client, ClientMoves(c, new, {}),
         WorkerHears({}), Written(client[c]), new.since = {}
  PROVE  Told1'
<1>1. \A e \in Clients \ {c} : client'[e].pc = client[e].pc /\ client'[e].since = client[e].since
  BY DEF ClientMoves, Hears, TypeOK, Client
<1>2. client'[c] = new /\ worker'.pc = worker.pc /\ worker'.since = worker.since
      /\ Looks' = Looks
  BY DEF ClientMoves, WorkerHears, Looks, Removes, TypeOK, Worker
<1>3. (\A e \in Clients \ {c} : ~Written(client[e])) /\ worker.pc # "publish"
  BY OneWriter
<1> QED
  BY <1>1, <1>2, <1>3 DEF Told1, Written

\* A save by somebody who was told of no other.
LEMMA ToldSave ==
  ASSUME TypeOK, NEW c \in Clients, NEW new \in Client, NEW k, ClientMoves(c, new, {k}),
         WorkerHears({k}), \A e \in Clients \ {c} : ~Written(client[e]), worker.pc # "publish",
         Written(new) => new.since = {}
  PROVE  Told1'
<1>1. \A e \in Clients \ {c} :
        /\ client'[e].pc = client[e].pc
        /\ client'[e].pc \in Viewing => client'[e].since # {}
  BY DEF ClientMoves, Hears
<1>2. client'[c] = new /\ worker'.pc = worker.pc
  BY DEF ClientMoves, WorkerHears
<1>3. Looks' => worker'.since # {}
  BY DEF WorkerHears, Looks, Removes, Viewing
<1> QED
  BY <1>1, <1>2, <1>3 DEF Told1, Written

\* The file stays, and nobody begins or ends to have an unpublished save.
LEMMA KeepsFile ==
  ASSUME FileInv, NEW c \in Clients, NEW new \in Client, NEW kinds,
         ClientMoves(c, new, kinds), WorkerHears(kinds), file' = file, config' = config,
         found' = found, InForce' => InForce,
         Written(new) <=> Written(client[c]),
         Written(new) => /\ new.next = client[c].next /\ new.pc # "run_publish"
                         /\ client[c].pc # "run_publish"
  PROVE  FileInv'
<1>1. \A e \in Clients \ {c} :
        /\ client'[e].pc = client[e].pc /\ client'[e].next = client[e].next
        /\ client'[e].report = client[e].report
  BY DEF ClientMoves, Hears
<1>2. client'[c] = new /\ worker'.pc = worker.pc /\ worker'.base = worker.base
  BY DEF ClientMoves, WorkerHears
<1>3. Desired' = Desired
  BY DEF Desired
<1> QED
  BY <1>1, <1>2, <1>3 DEF FileInv, Written, At, Quiescent

\* What the others have seen.
LEMMA KeepsViews ==
  ASSUME ViewInv, NEW c \in Clients, NEW new \in Client, NEW kinds,
         ClientMoves(c, new, kinds), config' = config, session' = session,
         unrestored => unrestored',
         \A d \in Domains : ops'[d] = "pending" =>
           ops[d] = "pending" \/ \A e \in Clients \ {c} : ~At(e, "add_publish"),
         new.pc \in {"update_save", "update_reload", "update_restore"} /\ new.since = {} =>
           /\ ~unrestored' /\ new.before.endpoint = config.endpoint => new.before = config
           /\ new.pc = "update_save" => new.hot = Hot(new.next),
         new.pc \in ApplySteps =>
           /\ new.before = config /\ SettingsOf(new.next) = SettingsOf(config)
           /\ new.session = session,
         new.pc = "add_publish" =>
           /\ new.before = config /\ new.next.managed = config.managed
           /\ \A d \in Domains : ops'[d] = "pending" => new.next.domains = config.domains \cup {d},
         new.pc \in QuickSteps => new.next.domains = config.domains
  PROVE  ViewInv'
<1>1. ASSUME NEW e \in Clients \ {c}
      PROVE  LET r == client'[e] IN
             /\ r.pc \in {"update_save", "update_reload", "update_restore"} /\ r.since = {} =>
                  /\ ~unrestored' /\ r.before.endpoint = config.endpoint => r.before = config
                  /\ r.pc = "update_save" => r.hot = Hot(r.next)
             /\ r.pc \in ApplySteps =>
                  /\ r.before = config /\ SettingsOf(r.next) = SettingsOf(config)
                  /\ r.session = session
             /\ r.pc = "add_publish" =>
                  /\ r.before = config /\ r.next.managed = config.managed
                  /\ \A d \in Domains : ops'[d] = "pending" =>
                       r.next.domains = config.domains \cup {d}
             /\ r.pc \in QuickSteps => r.next.domains = config.domains
  <2> DEFINE r == client[e]
             q == client'[e]
  <2>1. /\ q.pc = r.pc /\ q.next = r.next /\ q.before = r.before
        /\ q.session = r.session /\ q.hot = r.hot /\ (q.since = {} => r.since = {})
        /\ r.pc \in {"update_save", "update_reload", "update_restore"} /\ q.since = {} =>
             kinds = {}
    BY DEF Viewing, ClientMoves, Hears
  <2>2. /\ r.pc \in {"update_save", "update_reload", "update_restore"} /\ r.since = {} =>
             /\ ~unrestored /\ r.before.endpoint = config.endpoint => r.before = config
             /\ r.pc = "update_save" => r.hot = Hot(r.next)
        /\ r.pc \in ApplySteps =>
             /\ r.before = config /\ SettingsOf(r.next) = SettingsOf(config)
             /\ r.session = session
        /\ r.pc = "add_publish" =>
             /\ r.before = config /\ r.next.managed = config.managed
             /\ \A d \in Domains : ops[d] = "pending" => r.next.domains = config.domains \cup {d}
        /\ r.pc \in QuickSteps => r.next.domains = config.domains
    BY DEF ViewInv, At, Current
  <2>3. r.pc = "add_publish" => \A d \in Domains : ops'[d] = "pending" => ops[d] = "pending"
    BY DEF At
  <2> HIDE DEF r, q
  <2> QED
    BY <2>1, <2>2, <2>3 DEF q
<1>2. client'[c] = new
  BY DEF ClientMoves
<1>3. \A cfg : Hot(cfg)' = Hot(cfg)
  BY DEF Hot
<1> QED
  BY <1>1, <1>2, <1>3 DEF ViewInv, At, Current

\* The worker's view and the Runner it works on.
LEMMA KeepsWorker ==
  ASSUME WorkerInv, NEW kinds, WorkerHears(kinds),
         config'.domains = config.domains, config'.managed = config.managed,
         session' = session, runner'[session] = runner[session],
         runner'[worker.session] = runner[worker.session],
         \/ policy' = policy
         \/ worker.pc \notin {"decide", "save", "publish"}
         \/ worker'.since # {}
  PROVE  WorkerInv'
<1>1. /\ worker'.pc = worker.pc /\ worker'.adds = worker.adds /\ worker'.domain = worker.domain
      /\ worker'.base = worker.base /\ worker'.before = worker.before
      /\ worker'.session = worker.session /\ worker'.guarded = worker.guarded
      /\ (worker'.since = {} => worker.since = {})
  BY DEF WorkerHears
<1>2. /\ Working' = Working /\ HoldsSlot' = HoldsSlot /\ Looks' = Looks /\ Removes' = Removes
      /\ Edited' = Edited /\ Target' = Target
  BY <1>1 DEF Working, HoldsSlot, Looks, Removes, Edited, Target
<1>3. InPolicy(worker.domain)' = (policy'.exists /\ policy'.maps[worker.domain] # NoAddress)
  BY <1>1 DEF InPolicy
<1>4. /\ Working' =>
           IF worker'.adds THEN config'.domains = worker'.before \cup {worker'.domain}
           ELSE worker'.before = config'.domains
      /\ HoldsSlot' /\ worker'.adds => worker'.base.domains = config'.domains
      /\ Removes' /\ Edited' => worker'.base.domains = Target'
      /\ worker'.pc \in {"decide", "save", "publish"} =>
           runner'[worker'.session].domains = Target'
      /\ HoldsSlot' /\ session' # worker'.session =>
           runner'[session'].domains = config'.domains
  BY <1>1, <1>2 DEF WorkerInv
<1>5. Looks' /\ worker'.since = {} =>
        /\ worker'.base.managed = config'.managed
        /\ Removes' /\ ~Edited' => worker'.base.domains = config'.domains
        /\ worker'.pc # "poll" => session' = worker'.session
        /\ Removes' /\ worker'.pc = "decide" /\ ~worker'.guarded => ~policy'.exists
        /\ Removes' /\ Edited' => ~InPolicy(worker.domain)'
  <2>1. SUFFICES ASSUME Looks, worker.since = {}, worker'.since = {}
        PROVE  /\ worker.base.managed = config.managed
               /\ Removes /\ ~Edited => worker.base.domains = config.domains
               /\ worker.pc # "poll" => session = worker.session
               /\ Removes /\ worker.pc = "decide" /\ ~worker.guarded => ~policy'.exists
               /\ Removes /\ Edited =>
                    ~(policy'.exists /\ policy'.maps[worker.domain] # NoAddress)
    BY <1>1, <1>2, <1>3
  <2> QED
    BY <2>1 DEF WorkerInv, Edited, InPolicy
<1> QED
  BY <1>1, <1>2, <1>4, <1>5 DEF WorkerInv

\* Neither the Runner nor what it follows changes.
LEMMA KeepsRunner ==
  ASSUME RunnerInv, NEW c \in Clients, NEW new \in Client, NEW kinds,
         ClientMoves(c, new, kinds), client[c].pc # "update_publish", new.pc # "update_publish",
         config'.domains = config.domains, config'.managed = config.managed,
         session' = session, runner'[session] = runner[session],
         \A d \in Domains : ops[d] \in Active \cup {"failed"} => ops'[d] \in Active \cup {"failed"}
  PROVE  RunnerInv'
<1>1. \A e \in Clients \ {c} : client'[e].pc = client[e].pc /\ client'[e].next = client[e].next
  BY DEF ClientMoves, Hears
<1>2. client'[c] = new
  BY DEF ClientMoves
<1> QED
  BY <1>1, <1>2 DEF RunnerInv, NoneReloads, At

\* The policy does not change.
LEMMA KeepsPolicy ==
  ASSUME PolicyInv, NEW c \in Clients, NEW new \in Client, NEW kinds,
         ClientMoves(c, new, kinds), client[c].pc # "update_publish", new.pc # "update_publish",
         config'.domains = config.domains, policy' = policy,
         \A d \in Domains : ops'[d] = "removed" => ops[d] = "removed"
  PROVE  PolicyInv'
<1>1. \A e \in Clients \ {c} : client'[e].pc = client[e].pc /\ client'[e].next = client[e].next
  BY DEF ClientMoves, Hears
<1>2. client'[c] = new
  BY DEF ClientMoves
<1>3. \A d : InPolicy(d)' = InPolicy(d)
  BY DEF InPolicy
<1> QED
  BY <1>1, <1>2, <1>3 DEF PolicyInv, NoneReloads, At

-----------------------------------------------------------------------------
(* Steps of a request that save and publish nothing *)

\* The request c goes on, with the locks, the slot and the view it needs.
Prepares(c, new) ==
  /\ client' = [client EXCEPT ![c] = new]
  /\ ~Written(client[c]) /\ ~Written(new) /\ ClientHas(new)
  /\ new.pc \in LockSteps => client[c].pc \in LockSteps \/ LockFree
  /\ new.pc \in Updating \cup {"add_publish"} => ~Working
  /\ new.pc \in {"run_execute", "quick_execute"} => ~HoldsSlot
  /\ new.pc \in LockSteps \ {"quick_build"} =>
       client[c].pc \in LockSteps \ {"quick_build"} \/ worker.pc # "publish"
  /\ new.pc = "quick_build" => session < MaxSessions
  /\ new.pc \in QuickSteps =>
       new.session = session + 1 /\ runner'[session + 1] = SettingsOf(new.next)
  /\ new.pc = "run_execute" => new.session = session
  /\ new.pc \in Viewing \ {"edit"} =>
       \/ client[c].pc \in Viewing \ {"edit"} /\ new.since = client[c].since
       \/ Unpublished \subseteq new.since
  /\ new.pc \notin Stale => new.since \subseteq {"apply", "restart"}
  /\ new.pc \notin Viewing => new.since = {}

\* A step as Prepares says keeps the invariant when the policy it may leave is one
\* of PolicyInv.
LEMMA LocalStep ==
  ASSUME IInv, NEW c \in Clients, NEW new \in Client, Prepares(c, new),
         UNCHANGED <<file, config, session, ops, worker, found, lost, unrestored>>,
         plan' \in Config \cup {NoConfig}, events' \in 0..MaxEvents, policy' \in Policy,
         ~policy'.exists => policy'.maps = NoMaps,
         runner' \in [0..MaxSessions -> Settings],
         \A s \in 0..session : runner'[s] = runner[s],
         runner' = runner \/ client[c].pc \in LockSteps,
         lost = {} =>
           /\ policy' = policy \/ (~HoldsSlot /\ PolicyInv')
           /\ new.pc = "update_save" /\ new.since = {} =>
                Current(new.before) /\ new.hot = Hot(new.next)
           /\ new.pc \in QuickSteps => new.next.domains = config.domains
  PROVE  IInv'
<1>1. TypeOK /\ ControlInv
  BY DEF IInv, ControlInv
<1>2. ClientMoves(c, new, {}) /\ WorkerHears({})
  BY <1>1, ClientStep, WorkerStays DEF Prepares, TypeOK
<1>3. ApplySteps \subseteq Saved /\ "update_publish" \in Saved /\ "add_publish" \in Saved
      /\ "update_reload" \in Saved /\ "update_restore" \in Saved
  BY DEF Saved
<1>4. new.pc \notin ApplySteps /\ new.pc # "update_publish" /\ new.pc # "add_publish"
      /\ client[c].pc # "add_publish" /\ client[c].pc # "update_publish"
      /\ new.pc # "update_reload" /\ new.pc # "update_restore"
  BY <1>3 DEF Prepares, Written
<1>5. TypeOK'
  BY <1>1, <1>2 DEF TypeOK, ClientMoves
<1>6. HasConfigs'
  BY <1>1, <1>2, KeepsConfigs DEF Prepares
<1>7. Exclusion'
  BY <1>1, <1>2, <1>4, KeepsExclusion DEF Prepares
<1>8. Operations'
  BY <1>1, <1>2, <1>4, KeepsOperations
<1>9. Sessions'
  BY <1>1, <1>2, KeepsSessions DEF Prepares
<1>10. SinceInv'
  BY <1>1, <1>2, KeepsSince DEF Prepares
<1>11. ControlInv'
  BY <1>1, <1>5, <1>6, <1>7, <1>8, <1>9, <1>10 DEF ControlInv, OnlyKnownOverwrites
<1>12. ASSUME lost = {} PROVE DataInv'
  <2>1. DataInv
    BY <1>12 DEF IInv
  <2>2. Told1'
    BY <1>1, <1>2, <2>1, ToldWhileLooking DEF Prepares, DataInv
  <2>3. InForce' = InForce /\ unrestored' = unrestored
    BY DEF InForce, Waits
  <2>4. FileInv'
    BY <1>2, <2>1, <2>3, KeepsFile DEF Prepares, DataInv
  <2>5. ViewInv'
    BY <1>2, <1>4, <1>12, <2>1, <2>3, KeepsViews DEF DataInv, Current
  <2>6. session \in 0..session /\ worker.session \in 0..session
    BY <1>1 DEF TypeOK, Worker, ControlInv, Sessions
  <2>7. WorkerInv'
    BY <1>2, <1>12, <2>1, <2>6, KeepsWorker DEF DataInv, HoldsSlot
  <2>8. RunnerInv'
    BY <1>2, <1>4, <2>1, <2>6, KeepsRunner DEF DataInv
  <2>9. PolicyInv'
    BY <1>2, <1>4, <1>12, <2>1, KeepsPolicy DEF DataInv
  <2> QED
    BY <2>2, <2>4, <2>5, <2>7, <2>8, <2>9 DEF DataInv
<1> QED
  BY <1>11, <1>12 DEF IInv

\* A request that ends without a trace.
LEMMA Ending ==
  ASSUME IInv, NEW c \in Clients, ~Written(client[c]), Ends(c),
         UNCHANGED <<file, config, runner, session, ops, worker, plan, found, lost, unrestored>>,
         events' \in 0..MaxEvents, policy' \in Policy,
         ~policy'.exists => policy'.maps = NoMaps,
         lost = {} => policy' = policy \/ (~HoldsSlot /\ PolicyInv')
  PROVE  IInv'
<1>1. Idle \in Client /\ Idle.pc = "idle" /\ Idle.since = {}
  BY IdleType
<1>2. "idle" \notin Viewing \cup Saved \cup LockSteps \cup Updating \cup QuickSteps \cup ApplySteps
  BY DEF Viewing, Saved, LockSteps, Updating, QuickSteps, ApplySteps
<1>3. Prepares(c, Idle)
  BY <1>1, <1>2 DEF Prepares, Ends, Written, ClientHas
<1>4. TypeOK
  BY DEF IInv, ControlInv
<1> QED
  BY <1>1, <1>2, <1>3, <1>4, LocalStep DEF TypeOK

-----------------------------------------------------------------------------
(* The policy under a refresh *)

\* What a commit leaves.
LEMMA CommitType ==
  ASSUME NEW reported \in BOOLEAN, NEW D \in SUBSET Domains, NEW keep,
         CommitsAs(reported, D, keep)
  PROVE  /\ policy' \in Policy /\ policy'.exists /\ policy'.reported = reported
         /\ Mapped(policy'.maps) = D
<1>1. PICK m \in Allocations(D, keep) :
        policy' = [exists |-> TRUE, maps |-> m, reported |-> reported]
  BY DEF CommitsAs
<1>2. m \in Maps /\ Mapped(m) = D
  BY DEF Allocations
<1> QED
  BY <1>1, <1>2 DEF Policy

\* What a failed refresh leaves: the old policy, or one that was not reported.
LEMMA RefreshFailsType ==
  ASSUME policy \in Policy, ~policy.exists => policy.maps = NoMaps,
         NEW D \in SUBSET Domains, NEW keep, RefreshFails(D, keep)
  PROVE  /\ policy' \in Policy /\ (~policy'.exists => policy'.maps = NoMaps)
         /\ policy' = policy \/ ~policy'.reported
<1>1. CASE policy' = policy
  BY <1>1
<1>2. CASE CommitsAs(FALSE, D, keep)
  BY <1>2, CommitType
<1> QED
  BY <1>1, <1>2 DEF RefreshFails

\* A commit of domains of which none was reported as removed.
LEMMA PolicyCommitted ==
  ASSUME NEW D \in SUBSET Domains, policy' \in Policy, Mapped(policy'.maps) \subseteq D,
         NoneReloads', \A d \in D : d \in config'.domains \/ ops'[d] # "removed"
  PROVE  PolicyInv'
<1>1. ASSUME NEW d \in Domains, InPolicy(d)' PROVE d \in D
  BY <1>1 DEF InPolicy, Mapped
<1> QED
  BY <1>1 DEF PolicyInv, NoneReloads

-----------------------------------------------------------------------------
(* config.update *)

LEMMA Accepted ==
  ASSUME TypeOK, Accept
  PROVE  events' \in 0..MaxEvents
  BY BoundsAreNaturals DEF TypeOK, Accept

\* What config.get shows, and what a client makes of it, are configurations.
LEMMA DesiredType ==
  ASSUME TypeOK
  PROVE  Desired \in Config
<1>1. config.mihomo \in Mihomos /\ file \in Config
  BY DEF TypeOK, Config
<1>2. [file EXCEPT !.mihomo = config.mihomo] \in Config
  BY <1>1, ConfigFields
<1> QED
  BY <1>1, <1>2 DEF Desired

LEMMA SubmittedType ==
  ASSUME NEW copy \in Config, NEW next \in Submitted(copy)
  PROVE  next \in Config
<1>1. CASE next \in OtherSettings(copy)
  <2>1. (\E m \in BOOLEAN : next = [copy EXCEPT !.managed = m])
        \/ \E e \in 0..1 : next = [copy EXCEPT !.endpoint = e]
    BY <1>1, Zenon DEF OtherSettings
  <2> QED
    BY <2>1, ConfigFields, Zenon
<1>2. CASE next \in OtherDomains(copy)
  <2>1. PICK D \in SUBSET Domains : next = [copy EXCEPT !.domains = D, !.maps = Pruned(@, D)]
    BY <1>2, Zenon DEF OtherDomains
  <2>2. Pruned(copy.maps, D) \in Maps
    BY PrunedType DEF Config
  <2>3. [copy EXCEPT !.domains = D, !.maps = Pruned(copy.maps, D)] \in Config
    BY <2>2, ConfigFields, Zenon
  <2> QED
    BY <2>1, <2>3
<1> QED
  BY <1>1, <1>2 DEF Submitted

\* A copy that is fetched takes no lock, and is no view yet.
LEMMA FetchesKeeps ==
  ASSUME IInv, NEW c \in Clients, Fetches(c), UNCHANGED <<found, session, ops, plan>>
  PROVE  IInv'
<1> DEFINE new == [Idle EXCEPT !.pc = "edit", !.next = Desired]
<1>1. ControlInv /\ TypeOK /\ Desired \in Config
  BY DesiredType DEF IInv, ControlInv
<1>2. "edit" \in ClientSteps
  BY DEF ClientSteps
<1>3. new \in Client
  BY <1>1, <1>2, ClientFields, IdleType, Zenon
<1>4. new.pc = "edit" /\ new.next = Desired /\ new.since = {}
  BY IdleType DEF Client
<1>5. client' = [client EXCEPT ![c] = new] /\ client[c].pc = "idle"
  BY DEF Fetches, At
<1> HIDE DEF new
<1>6. Prepares(c, new)
  BY <1>1, <1>4, <1>5
     DEF Prepares, Written, Saved, ClientHas, QuickSteps, ApplySteps, Updating, LockSteps
<1>7. /\ UNCHANGED <<file, config, session, ops, worker, found, lost, unrestored>>
      /\ UNCHANGED <<runner, policy, plan>> /\ events' \in 0..MaxEvents
  BY <1>1, Accepted DEF Fetches, TypeOK
<1>8. new.pc \notin QuickSteps
  BY <1>4 DEF QuickSteps
<1> QED
  BY <1>1, <1>3, <1>4, <1>6, <1>7, <1>8, LocalStep DEF TypeOK, ControlInv, HasConfigs

LEMMA UpdateBeginsKeeps ==
  ASSUME IInv, NEW c \in Clients, UpdateBegins(c), UNCHANGED <<found, session, ops, plan>>
  PROVE  IInv'
<1>1. ControlInv /\ TypeOK /\ Desired \in Config /\ client[c].pc = "edit" /\ LockFree
      /\ NoOperation /\ client[c].next \in Config
  BY DesiredType DEF IInv, ControlInv, UpdateBegins, At, HasConfigs, ClientHas
<1> DEFINE Made(next) ==
             [Idle EXCEPT !.pc = "update_save", !.next = next, !.before = Desired,
                          !.hot = Hot(next), !.since = client[c].since \cup Unpublished]
<1>2. PICK next \in Submitted(client[c].next) : client' = [client EXCEPT ![c] = Made(next)]
  BY DEF UpdateBegins
<1>3. next \in Config
  BY <1>1, <1>2, SubmittedType
<1> DEFINE since == client[c].since \cup Unpublished
           new == [Idle EXCEPT !.pc = "update_save", !.next = next, !.before = Desired,
                               !.hot = Hot(next), !.since = since]
<1>4. since \in SUBSET Kinds /\ "update_save" \in ClientSteps /\ Hot(next) \in BOOLEAN
  BY <1>1, UnpublishedKinds DEF Hot, ClientSteps, LockSteps, TypeOK, Client
<1>5. client' = [client EXCEPT ![c] = new]
  BY <1>2
<1>6. Unpublished \subseteq since
  OBVIOUS
<1> HIDE DEF since
<1>7. new \in Client
  BY <1>1, <1>3, <1>4, ClientFields, IdleType, Zenon
<1>8. /\ new.pc = "update_save" /\ new.next = next /\ new.before = Desired
      /\ new.hot = Hot(next) /\ new.since = since
  BY IdleType DEF Client
<1> HIDE DEF new
<1>9. ~Working
  BY <1>1 DEF NoOperation, ControlInv, Operations, HasConfigs
<1>10. worker.pc # "publish"
  BY <1>9 DEF Working
<1>11. client[c].pc \notin Saved /\ new.pc \notin Saved
  BY <1>1, <1>8 DEF Saved, ApplySteps
<1>12. Prepares(c, new)
  BY <1>1, <1>3, <1>5, <1>6, <1>8, <1>9, <1>10, <1>11
     DEF Prepares, Written, ClientHas, QuickSteps, ApplySteps, Viewing, Updating, Stale
<1>13. ASSUME lost = {}, new.since = {} PROVE Current(new.before)
  <2>1. Quiescent
    BY <1>1, <1>6, <1>8, <1>13, UnpublishedKinds
  <2>2. InForce => Desired = config
    BY <1>13, <2>1 DEF IInv, DataInv, FileInv
  <2>3. Desired.endpoint = file.endpoint
    BY <1>1 DEF Desired, TypeOK, Config
  <2> QED
    BY <1>8, <2>2, <2>3 DEF Current, InForce, Waits
<1>14. /\ UNCHANGED <<file, config, session, ops, worker, found, lost, unrestored>>
       /\ UNCHANGED <<runner, policy, plan>> /\ events' \in 0..MaxEvents
  BY <1>1 DEF UpdateBegins, TypeOK
<1>15. new.pc \notin QuickSteps
  BY <1>8 DEF QuickSteps
<1> QED
  BY <1>1, <1>7, <1>8, <1>12, <1>13, <1>14, <1>15, LocalStep DEF TypeOK, ControlInv, HasConfigs

LEMMA UpdateSaveFailsKeeps ==
  ASSUME IInv, NEW c \in Clients, UpdateSaveFails(c), UNCHANGED <<found, session, ops, plan>>
  PROVE  IInv'
<1>1. TypeOK /\ HasConfigs
  BY DEF IInv, ControlInv
<1>2. ~Written(client[c])
  BY DEF UpdateSaveFails, At, Written, Saved, ApplySteps
<1> QED
  BY <1>1, <1>2, Ending DEF UpdateSaveFails, TypeOK, HasConfigs

-----------------------------------------------------------------------------
(* optimizer.run and the optimization of a quick start *)

LEMMA BenchmarkKeeps ==
  ASSUME IInv, NEW c \in Clients, Benchmark(c),
         UNCHANGED <<runner, session, ops, plan, found, unrestored>>
  PROVE  IInv'
<1>1. TypeOK /\ HasConfigs /\ ControlInv
  BY DEF IInv, ControlInv
<1>2. CASE At(c, "idle") /\ Accept /\ Goes(c, "benchmark")
  <2> DEFINE new == [client[c] EXCEPT !.pc = "benchmark"]
  <2>1. client[c] \in Client /\ "benchmark" \in ClientSteps
    BY <1>1 DEF TypeOK, ClientSteps
  <2>2. new \in Client
    BY <2>1, ClientFields
  <2>3. new.pc = "benchmark" /\ new.since = client[c].since
    BY <2>1 DEF Client
  <2>4. client' = [client EXCEPT ![c] = new]
    BY <1>2, <1>1 DEF Goes, TypeOK
  <2> HIDE DEF new
  <2>5. client[c].since = {}
    BY <1>1, <1>2 DEF ControlInv, SinceInv, At, Viewing, ApplySteps
  <2>6. Prepares(c, new)
    BY <1>2, <2>3, <2>4, <2>5
       DEF Prepares, At, Written, Saved, ApplySteps, ClientHas, LockSteps, Updating, QuickSteps,
           Viewing
  <2>7. events' \in 0..MaxEvents
    BY <1>1, <1>2, Accepted
  <2>8. new.pc # "update_save" /\ new.pc \notin QuickSteps
    BY <2>3 DEF QuickSteps
  <2> QED
    BY <1>1, <2>2, <2>6, <2>7, <2>8, LocalStep DEF Benchmark, TypeOK, HasConfigs
<1>3. CASE At(c, "benchmark") /\ Ends(c) /\ UNCHANGED events
  <2>1. ~Written(client[c])
    BY <1>3 DEF At, Written, Saved, ApplySteps
  <2> QED
    BY <1>1, <1>3, <2>1, Ending DEF Benchmark, TypeOK, HasConfigs
<1> QED
  BY <1>2, <1>3 DEF Benchmark

LEMMA RunBeginsKeeps ==
  ASSUME IInv, NEW c \in Clients, RunBegins(c),
         UNCHANGED <<runner, session, ops, plan, found, unrestored>>
  PROVE  IInv'
<1> DEFINE new == [Idle EXCEPT !.pc = "run_execute", !.session = session]
<1>1. TypeOK /\ HasConfigs /\ ControlInv
  BY DEF IInv, ControlInv
<1>2. session \in 0..MaxSessions /\ "run_execute" \in ClientSteps
  BY <1>1 DEF TypeOK, ClientSteps, LockSteps
<1>3. new \in Client
  BY <1>2, IdleType, ClientFields, Zenon
<1>4. new.pc = "run_execute" /\ new.session = session /\ new.since = {}
  BY IdleType DEF Client
<1>5. client' = [client EXCEPT ![c] = new] /\ client[c].pc = "idle" /\ LockFree
      /\ worker.pc \in {"idle", "poll"}
  BY DEF RunBegins, At, TaskFree
<1> HIDE DEF new
<1>6. Prepares(c, new)
  BY <1>4, <1>5
     DEF Prepares, Written, Saved, ApplySteps, ClientHas, Updating, QuickSteps, Viewing, HoldsSlot
<1>7. events' \in 0..MaxEvents
  BY <1>1, Accepted DEF RunBegins
<1>8. new.pc # "update_save" /\ new.pc \notin QuickSteps
  BY <1>4 DEF QuickSteps
<1> QED
  BY <1>1, <1>3, <1>6, <1>7, <1>8, LocalStep DEF RunBegins, TypeOK, HasConfigs

\* A full run, of a request or of a quick start, has none of the domains that
\* were reported as removed.
LEMMA OptimizesKeeps ==
  ASSUME IInv, NEW c \in Clients, NEW step \in {"run_return", "quick_return"},
         client[c].pc = IF step = "run_return" THEN "run_execute" ELSE "quick_execute",
         Optimizes(c, client[c].session, step),
         UNCHANGED <<file, config, runner, session, ops, worker, plan, events, found, lost,
                     unrestored>>
  PROVE  IInv'
<1> DEFINE D == runner[client[c].session].domains
<1>1. TypeOK /\ HasConfigs /\ ControlInv /\ client[c] \in Client
  BY DEF IInv, ControlInv, TypeOK
<1>2. D \in SUBSET Domains
  BY <1>1 DEF TypeOK, Client, Settings
<1>3. ~HoldsSlot /\ ~Written(client[c]) /\ client[c].pc \in LockSteps
  BY <1>1 DEF ControlInv, Exclusion, Written, Saved, ApplySteps, LockSteps
<1>4. NoneReloads
  BY <1>1, <1>3 DEF ControlInv, Exclusion, NoneReloads, At, LockSteps
<1>5. ASSUME lost = {} PROVE \A d \in D : d \in config.domains \/ ops[d] # "removed"
  <2>1. CASE step = "run_return"
    <3>1. client[c].session = session
      BY <1>1, <2>1 DEF ControlInv, Sessions, At
    <3> QED
      BY <1>2, <1>4, <1>5, <3>1 DEF IInv, DataInv, RunnerInv, Active
  <2>2. CASE step = "quick_return"
    <3>1. client[c].pc \in QuickSteps
      BY <2>2 DEF QuickSteps
    <3>2. runner[client[c].session] = SettingsOf(client[c].next)
      BY <1>1, <3>1 DEF ControlInv, Sessions
    <3>3. client[c].next.domains = config.domains
      BY <1>5, <3>1 DEF IInv, DataInv, ViewInv
    <3> QED
      BY <3>2, <3>3 DEF SettingsOf
  <2> QED
    BY <2>1, <2>2
<1> HIDE DEF D
<1>6. ASSUME NEW new \in Client, client' = [client EXCEPT ![c] = new],
             new.pc # "update_publish"
      PROVE  NoneReloads'
  BY <1>1, <1>4, <1>6 DEF NoneReloads, At, TypeOK
<1>7. ASSUME NEW m \in Allocations(D, NoMaps),
             policy' = [exists |-> TRUE, maps |-> m, reported |-> TRUE],
             client' = [client EXCEPT ![c].pc = step, ![c].report = m]
      PROVE  IInv'
  <2> DEFINE new == [client[c] EXCEPT !.pc = step, !.report = m]
  <2>1. m \in Maps /\ step \in ClientSteps
    BY <1>7 DEF Allocations, ClientSteps, LockSteps
  <2>2. new \in Client
    BY <1>1, <2>1, ClientFields, Zenon
  <2>3. /\ new.pc = step /\ new.since = client[c].since /\ new.next = client[c].next
        /\ new.session = client[c].session
    BY <1>1 DEF Client
  <2>4. client' = [client EXCEPT ![c] = new]
    BY <1>1, <1>7 DEF TypeOK
  <2> HIDE DEF new
  <2>5. CommitsAs(TRUE, D, NoMaps)
    BY <1>7 DEF CommitsAs
  <2>6. policy' \in Policy /\ policy'.exists /\ Mapped(policy'.maps) = D
    BY <1>2, <2>5, CommitType
  <2>7. lost = {} => PolicyInv'
    BY <1>2, <1>5, <1>6, <2>2, <2>3, <2>4, <2>6, PolicyCommitted
  <2>8. client[c].since \subseteq {"apply", "restart"} /\ (step = "run_return" => client[c].since = {})
    BY <1>1 DEF ControlInv, SinceInv, ApplySteps, Viewing, Stale, Updating
  <2>9. CASE step = "run_return"
    <3>1. Prepares(c, new)
      BY <1>3, <2>3, <2>4, <2>8, <2>9
         DEF Prepares, Written, Saved, ApplySteps, ClientHas, Updating, QuickSteps, Viewing,
             LockSteps
    <3>2. new.pc # "update_save" /\ new.pc \notin QuickSteps
      BY <2>3, <2>9 DEF QuickSteps
    <3> QED
      BY <1>1, <1>3, <2>2, <2>6, <2>7, <3>1, <3>2, LocalStep DEF TypeOK
  <2>10. CASE step = "quick_return"
    <3>1. client[c].pc \in QuickSteps /\ client[c].pc \in Viewing \ {"edit"}
          /\ client[c].pc \in LockSteps \ {"quick_build"}
      BY <2>10 DEF QuickSteps, Viewing, LockSteps
    <3>2. /\ new.next \in Config
          /\ new.session = session + 1 /\ runner'[session + 1] = SettingsOf(new.next)
      BY <1>1, <2>3, <3>1 DEF HasConfigs, ClientHas, ControlInv, Sessions
    <3>3. ~Written(new) /\ ClientHas(new) /\ new.pc \in Viewing
      BY <2>3, <2>10, <3>2 DEF Written, Saved, ApplySteps, ClientHas, Updating, Viewing
    <3>6. Prepares(c, new)
      BY <1>3, <2>3, <2>4, <2>8, <2>10, <3>1, <3>2, <3>3 DEF Prepares, Updating
    <3>4. new.pc # "update_save"
      BY <2>3
    <3>5. lost = {} => new.next.domains = config.domains
      BY <2>3, <3>1 DEF IInv, DataInv, ViewInv
    <3> QED
      BY <1>1, <1>3, <2>2, <2>6, <2>7, <3>6, <3>4, <3>5, LocalStep DEF TypeOK
  <2> QED
    BY <2>9, <2>10
<1>8. ASSUME RefreshFails(D, NoMaps), Ends(c) PROVE IInv'
  <2>1. /\ policy' \in Policy /\ (~policy'.exists => policy'.maps = NoMaps)
        /\ policy' = policy \/ ~policy'.reported
    BY <1>1, <1>2, <1>8, RefreshFailsType DEF TypeOK, HasConfigs
  <2>2. policy' = policy \/ PolicyInv'
    BY <2>1 DEF PolicyInv
  <2> QED
    BY <1>1, <1>3, <1>8, <2>1, <2>2, Ending DEF TypeOK
<1> QED
  BY <1>7, <1>8 DEF Optimizes, D

LEMMA RunExecutesKeeps ==
  ASSUME IInv, NEW c \in Clients, RunExecutes(c),
         UNCHANGED <<runner, session, ops, plan, found, unrestored>>
  PROVE  IInv'
  BY OptimizesKeeps DEF RunExecutes, At

LEMMA RunEndsKeeps ==
  ASSUME IInv, NEW c \in Clients, RunEnds(c),
         UNCHANGED <<runner, session, ops, plan, found, unrestored>>
  PROVE  IInv'
<1>1. TypeOK /\ HasConfigs
  BY DEF IInv, ControlInv
<1>2. ~Written(client[c])
  BY DEF RunEnds, At, Written, Saved, ApplySteps
<1> QED
  BY <1>1, <1>2, Ending DEF RunEnds, TypeOK, HasConfigs

-----------------------------------------------------------------------------
(* Quick start *)

LEMMA QuickPlansKeeps ==
  ASSUME IInv, NEW c \in Clients, QuickPlans(c), UNCHANGED <<ops, found, unrestored>>
  PROVE  IInv'
<1>1. TypeOK /\ HasConfigs /\ ControlInv /\ client[c] \in Client
  BY DEF IInv, ControlInv, TypeOK
<1>2. client' = [client EXCEPT ![c] = client[c]]
  BY <1>1 DEF QuickPlans, TypeOK
<1>3. client[c].pc = "idle"
  BY DEF QuickPlans, At
<1>4. client[c].since = {}
  BY <1>1, <1>3 DEF ControlInv, SinceInv, Viewing, ApplySteps
<1>5. Prepares(c, client[c])
  BY <1>2, <1>3, <1>4
     DEF Prepares, Written, Saved, ApplySteps, ClientHas, Updating, QuickSteps, Viewing, LockSteps
<1>6. events' \in 0..MaxEvents /\ plan' \in Config \cup {NoConfig}
  BY <1>1, Accepted DEF QuickPlans, TypeOK
<1>7. client[c].pc \notin QuickSteps
  BY <1>3 DEF QuickSteps
<1> QED
  BY <1>1, <1>3, <1>5, <1>6, <1>7, LocalStep DEF QuickPlans, TypeOK, HasConfigs

LEMMA QuickBeginsKeeps ==
  ASSUME IInv, NEW c \in Clients, QuickBegins(c), UNCHANGED <<ops, found, unrestored>>
  PROVE  IInv'
<1> DEFINE new == IF config = plan /\ file = config THEN [Idle EXCEPT !.pc = "quick_build"]
                  ELSE client[c]
<1>1. TypeOK /\ HasConfigs /\ ControlInv /\ client[c] \in Client
  BY DEF IInv, ControlInv, TypeOK
<1>2. "quick_build" \in ClientSteps
  BY DEF ClientSteps, LockSteps
<1>3. new \in Client
  BY <1>1, <1>2, IdleType, ClientFields
<1>4. client' = [client EXCEPT ![c] = new]
  BY <1>1 DEF QuickBegins, TypeOK
<1>5. client[c].pc = "idle" /\ LockFree /\ session < MaxSessions
  BY DEF QuickBegins, At
<1>6. client[c].since = {}
  BY <1>1, <1>5 DEF ControlInv, SinceInv, Viewing, ApplySteps
<1>7. new.pc \in {"idle", "quick_build"} /\ new.since = {}
  BY <1>5, <1>6, IdleType DEF Client
<1> HIDE DEF new
<1>8. Prepares(c, new)
  BY <1>4, <1>5, <1>7
     DEF Prepares, Written, Saved, ApplySteps, ClientHas, Updating, QuickSteps, Viewing, LockSteps
<1>9. events' \in 0..MaxEvents /\ plan' \in Config \cup {NoConfig}
  BY <1>1, Accepted DEF QuickBegins
<1>10. new.pc # "update_save" /\ new.pc \notin QuickSteps
  BY <1>7 DEF QuickSteps
<1> QED
  BY <1>1, <1>3, <1>8, <1>9, <1>10, LocalStep DEF QuickBegins, TypeOK, HasConfigs

LEMMA QuickBuildsKeeps ==
  ASSUME IInv, NEW c \in Clients, QuickBuilds(c), UNCHANGED <<ops, found, unrestored>>
  PROVE  IInv'
<1> DEFINE next == [config EXCEPT !.managed = TRUE]
           new == [client[c] EXCEPT !.pc = "quick_execute", !.next = next,
                                    !.session = session + 1, !.since = NotInMemory]
<1>1. TypeOK /\ HasConfigs /\ ControlInv /\ client[c] \in Client
  BY DEF IInv, ControlInv, TypeOK
<1>2. client[c].pc = "quick_build"
  BY DEF QuickBuilds, At
<1>3. ~Written(client[c]) /\ client[c].pc \in LockSteps /\ client[c].pc \notin Saved
  BY <1>2 DEF Written, Saved, ApplySteps, LockSteps
<1>4. CASE /\ TaskFree
           /\ runner' = [runner EXCEPT ![session + 1] = SettingsOf(next)]
           /\ client' = [client EXCEPT ![c] = new]
  <2>1. next \in Config /\ next.domains = config.domains
    BY <1>1, ConfigFields DEF TypeOK, Config
  <2> HIDE DEF next
  <2>2. session \in Nat /\ session < MaxSessions /\ session + 1 \in 0..MaxSessions
    BY <1>1, <1>2, BoundsAreNaturals DEF TypeOK, ControlInv, Sessions, At
  <2>3. NotInMemory \in SUBSET Kinds /\ Unpublished \subseteq NotInMemory
        /\ "quick_execute" \in ClientSteps
    BY <1>1, UnpublishedKinds DEF ClientSteps, LockSteps
  <2>4. new \in Client
    BY <1>1, <2>1, <2>2, <2>3, ClientFields, Zenon
  <2>5. /\ new.pc = "quick_execute" /\ new.next = next /\ new.session = session + 1
        /\ new.since = NotInMemory
    BY <1>1 DEF Client
  <2> HIDE DEF new
  <2>6. worker.pc \in {"idle", "poll"}
    BY <1>4 DEF TaskFree
  <2>7. NotInMemory \subseteq {"apply", "restart"}
    BY <1>1, <1>3, <2>6, LockedUnpublished
  <2>8. /\ runner' \in [0..MaxSessions -> Settings] /\ \A s \in 0..session : runner'[s] = runner[s]
        /\ runner'[session + 1] = SettingsOf(next)
    BY <1>1, <1>4, <2>1, <2>2, SettingsType DEF TypeOK
  <2>9. Prepares(c, new)
    BY <1>2, <1>3, <1>4, <2>1, <2>3, <2>5, <2>6, <2>7, <2>8
       DEF Prepares, Written, Saved, ApplySteps, ClientHas, Updating, QuickSteps, HoldsSlot, Viewing
  <2> QED
    BY <1>1, <1>3, <2>1, <2>4, <2>5, <2>8, <2>9, LocalStep DEF QuickBuilds, TypeOK, HasConfigs
<1>5. CASE Ends(c) /\ UNCHANGED runner
  BY <1>1, <1>3, <1>5, Ending DEF QuickBuilds, TypeOK, HasConfigs
<1> QED
  BY <1>4, <1>5 DEF QuickBuilds

LEMMA QuickExecutesKeeps ==
  ASSUME IInv, NEW c \in Clients, QuickExecutes(c), UNCHANGED <<ops, found, unrestored>>
  PROVE  IInv'
  BY OptimizesKeeps DEF QuickExecutes, At

LEMMA QuickOnceKeeps ==
  ASSUME IInv, NEW c \in Clients, QuickOnce(c), UNCHANGED <<ops, found, unrestored>>
  PROVE  IInv'
<1> DEFINE new == [Idle EXCEPT !.pc = "run_return", !.report = client[c].report]
<1>1. TypeOK /\ HasConfigs /\ ControlInv /\ client[c].report \in Maps
  BY DEF IInv, ControlInv, TypeOK, Client
<1>2. client[c].pc = "quick_return"
  BY DEF QuickOnce, At
<1>3. "run_return" \in ClientSteps
  BY DEF ClientSteps, LockSteps
<1>4. new \in Client
  BY <1>1, <1>3, IdleType, ClientFields, Zenon
<1>5. new.pc = "run_return" /\ new.since = {}
  BY IdleType DEF Client
<1>6. client' = [client EXCEPT ![c] = new]
  BY DEF QuickOnce
<1> HIDE DEF new
<1>7. Prepares(c, new)
  BY <1>2, <1>5, <1>6
     DEF Prepares, Written, Saved, ApplySteps, ClientHas, Updating, QuickSteps, Viewing, LockSteps
<1>8. new.pc # "update_save" /\ new.pc \notin QuickSteps
  BY <1>5 DEF QuickSteps
<1> QED
  BY <1>1, <1>4, <1>7, <1>8, LocalStep DEF QuickOnce, TypeOK, HasConfigs

-----------------------------------------------------------------------------
(* Saves of a request *)

\* What a request may save, and what it must remember of it.
LEMMA SaveStep ==
  ASSUME IInv, NEW c \in Clients, NEW new \in Client, NEW kind \in Kinds,
         NEW cfg \in Config, NEW since \in SUBSET Kinds, Saves(c, kind, cfg, since, new),
         UNCHANGED <<config, found, runner, session, policy, plan, unrestored>>,
         events' \in 0..MaxEvents, ops' \in [Domains -> OpStates],
         new.pc \in {"idle", "update_reload", "add_publish", "run_publish", "quick_activate",
                     "apply_refresh"},
         client[c].pc \notin {"add_publish", "update_publish"},
         ClientHas(new),
         new.pc \in LockSteps => client[c].pc \in LockSteps \/ LockFree,
         new.pc \in Updating \cup {"add_publish"} =>
           client[c].pc \in Updating \cup {"add_publish"} \/ ~Working,
         new.pc \in LockSteps => client[c].pc \in LockSteps \ {"quick_build"}
                                  \/ worker.pc # "publish",
         new.pc = "apply_refresh" => \A e \in Clients : ~At(e, "update_publish"),
         new.pc = "quick_activate" =>
           new.session = session + 1 /\ runner[session + 1] = SettingsOf(new.next),
         new.pc = "update_reload" \/ new.since \subseteq {"apply", "restart"},
         new.pc = "idle" => new.since = {},
         kind \in {"apply", "update", "restart"} \/ since \subseteq {"apply", "restart"},
         kind = "apply" \/ client[c].pc \in LockSteps \/ LockFree,
         kind \in {"apply", "restart", "run", "quick"} \/ worker.pc \notin Viewing,
         ops' = ops \/ (Operations' /\ LockFree),
         \A d \in Domains : ops[d] \in Active \cup {"failed"} => ops'[d] \in Active \cup {"failed"},
         \A d \in Domains : ops'[d] = "removed" => ops[d] = "removed",
         lost = {} /\ since = {} =>
           /\ \A e \in Clients \ {c} : ~Written(client[e])
           /\ worker.pc # "publish" /\ new.since = {}
           /\ IF new.pc = "idle" THEN InForce' => cfg = config
              ELSE cfg = IF new.pc = "run_publish" THEN [config EXCEPT !.maps = new.report]
                         ELSE new.next
           /\ new.pc = "update_reload" => Current(new.before)
           /\ new.pc = "apply_refresh" =>
                /\ new.before = config /\ SettingsOf(new.next) = SettingsOf(config)
                /\ new.session = session
           /\ new.pc = "add_publish" =>
                /\ new.before = config /\ new.next.managed = config.managed
                /\ \A d \in Domains : ops'[d] = "pending" =>
                     new.next.domains = config.domains \cup {d}
           /\ new.pc = "quick_activate" => new.next.domains = config.domains
  PROVE  IInv'
<1>1. TypeOK /\ ControlInv
  BY DEF IInv, ControlInv
<1>2. /\ ClientMoves(c, new, {kind}) /\ WorkerHears({kind})
      /\ file' = cfg /\ lost' = lost \cup ({kind} \X since)
  <2>1. client \in [Clients -> Client] /\ worker \in Worker
    BY <1>1 DEF TypeOK
  <2> QED
    BY <2>1, ClientSaves, SMTT(60)
<1>3. /\ Written(new) <=> new.pc # "idle"
      /\ new.pc \notin {"update_save", "update_publish", "update_restore", "quick_build",
                        "run_execute", "quick_execute", "quick_return"}
      /\ new.pc \in ApplySteps <=> new.pc = "apply_refresh"
      /\ new.pc \in QuickSteps <=> new.pc = "quick_activate"
      /\ new.pc \in Viewing <=> new.pc # "idle"
      /\ new.pc = "update_reload" => new.pc \in Stale
  BY DEF Written, Saved, ApplySteps, QuickSteps, Viewing, Stale, Updating
<1>4. TypeOK'
  <2>1. {kind} \X since \subseteq Kinds \X Kinds
    OBVIOUS
  <2>2. lost' \subseteq Kinds \X Kinds
    BY <1>1, <1>2, <2>1, Zenon DEF TypeOK
  <2> QED
    BY <1>1, <1>2, <2>2 DEF TypeOK, ClientMoves, WorkerHears
<1>5. HasConfigs'
  BY <1>1, <1>2, KeepsConfigs DEF ControlInv, HasConfigs
<1>6. Exclusion'
  BY <1>1, <1>2, <1>3, KeepsExclusion
<1>7. Operations'
  BY <1>1, <1>2, KeepsOperations
<1>8. Sessions'
  BY <1>1, <1>2, <1>3, KeepsSessions
<1>9. SinceInv'
  <2>1. \A e \in Clients \ {c} : client[e].pc \in Viewing \ Stale => {kind} \subseteq {"apply", "restart"}
    <3>1. Viewing \cap {client[e].pc : e \in Clients} \subseteq LockSteps \cup Stale
      BY <1>1 DEF Viewing, LockSteps, ApplySteps, TypeOK, Client, ClientSteps, Stale
    <3> QED
      BY <1>1, <3>1 DEF ControlInv, Exclusion, LockFree
  <2> QED
    BY <1>1, <1>2, <1>3, <2>1, KeepsSince
<1>10. OnlyKnownOverwrites'
  <2>1. {kind} \X since \subseteq KnownOverwrites
    BY DEF KnownOverwrites
  <2> QED
    BY <1>1, <1>2, <2>1 DEF ControlInv, OnlyKnownOverwrites
<1>11. ControlInv'
  BY <1>4, <1>5, <1>6, <1>7, <1>8, <1>9, <1>10 DEF ControlInv
<1>12. ASSUME lost' = {} PROVE DataInv'
  <2>1. lost = {} /\ since = {}
    <3>1. lost = {} /\ {kind} \X since = {}
      BY <1>2, <1>12, Zenon
    <3>2. \A k \in since : <<kind, k>> \in {kind} \X since
      OBVIOUS
    <3> QED
      BY <3>1, <3>2
  <2>2. DataInv
    BY <2>1 DEF IInv
  <2>3. Told1'
    BY <1>1, <1>2, <2>1, ToldSave
  <2>4. FileInv'
    <3>1. \A e \in Clients : Written(client'[e]) => e = c
      BY <1>2, <2>1 DEF ClientMoves, Hears, Written
    <3>2. client'[c] = new /\ worker'.pc # "publish"
      BY <1>2, <2>1 DEF ClientMoves, WorkerHears
    <3>3. \A e \in Clients : Written(client'[e]) =>
            file' = IF client'[e].pc = "run_publish" THEN [config' EXCEPT !.maps = client'[e].report]
                    ELSE client'[e].next
      BY <1>2, <1>3, <2>1, <3>1, <3>2
    <3>4. Quiescent' /\ InForce' => Desired' = config'
      <4>1. Quiescent' /\ InForce' => file' = config'
        BY <1>2, <1>3, <2>1, <3>2 DEF Quiescent
      <4>2. config' \in Config
        BY <1>1 DEF TypeOK
      <4> QED
        BY <4>1, <4>2, ShownAsIs DEF Desired
    <3> QED
      BY <3>2, <3>3, <3>4 DEF FileInv, At
  <2>5. ViewInv'
    BY <1>2, <1>3, <2>1, <2>2, KeepsViews DEF DataInv, LockFree, At, LockSteps, Current
  <2>6. WorkerInv'
    BY <1>2, <2>2, KeepsWorker DEF DataInv
  <2>7. RunnerInv'
    BY <1>2, <1>3, <2>2, KeepsRunner DEF DataInv
  <2>8. PolicyInv'
    BY <1>2, <1>3, <2>2, KeepsPolicy DEF DataInv
  <2> QED
    BY <2>3, <2>4, <2>5, <2>6, <2>7, <2>8 DEF DataInv
<1> QED
  BY <1>11, <1>12 DEF IInv

\* While config.update or the request of Add holds the lock, or could take it, no
\* worker is at work.
LEMMA IdleWorker ==
  ASSUME ControlInv, NEW c \in Clients,
         client[c].pc \in Updating \cup {"add_publish"} \/ (LockFree /\ NoOperation)
  PROVE  ~Working /\ worker.pc \notin Viewing /\ worker.pc # "publish"
<1>1. ~Working
  BY DEF ControlInv, Exclusion, Operations, HasConfigs, NoOperation
<1>2. worker.pc \in WorkerSteps
  BY DEF ControlInv, TypeOK, Worker
<1> QED
  BY <1>1, <1>2 DEF Working, WorkerSteps, Viewing, ApplySteps

LEMMA UpdateSavesKeeps ==
  ASSUME IInv, NEW c \in Clients, UpdateSaves(c), UNCHANGED <<found, session, ops, plan>>
  PROVE  IInv'
<1> DEFINE r == client[c]
           kind == IF r.next.endpoint = config.endpoint THEN "update" ELSE "restart"
           new == IF r.hot THEN [r EXCEPT !.pc = "update_reload"] ELSE Idle
<1>1. TypeOK /\ ControlInv /\ r \in Client
  BY DEF IInv, ControlInv, TypeOK
<1>2. r.pc = "update_save" /\ Saves(c, kind, r.next, r.since, new)
      /\ UNCHANGED <<config, runner, policy, events, unrestored>>
  BY DEF UpdateSaves, At
<1>3. r.pc \in Updating /\ r.pc \in LockSteps \ {"quick_build"} /\ r.pc \in Viewing \ {"edit"}
      /\ r.pc \notin ApplySteps
  BY <1>2 DEF Updating, LockSteps, Viewing, ApplySteps
<1>4. r.next \in Config /\ r.before \in Config /\ r.since \in SUBSET Kinds
      /\ r.hot \in BOOLEAN
  BY <1>1, <1>3 DEF ControlInv, HasConfigs, ClientHas, SinceInv, Client
<1>5. worker.pc \notin Viewing /\ worker.pc # "publish"
  BY <1>1, <1>3, IdleWorker
<1>6. kind \in Kinds /\ kind \in {"update", "restart"} /\ "update_reload" \in ClientSteps
  BY DEF Kinds, ClientSteps, LockSteps
<1>7. new \in Client
  BY <1>1, <1>6, IdleType, ClientFields
<1>8. /\ r.hot => /\ new.pc = "update_reload" /\ new.next = r.next /\ new.before = r.before
                  /\ new.since = r.since
      /\ ~r.hot => new.pc = "idle" /\ new.since = {}
  BY <1>1, IdleType DEF Client
<1>10. ASSUME lost = {}, r.since = {}
       PROVE  /\ \A e \in Clients \ {c} : ~Written(client[e])
              /\ r.hot => Current(r.before)
              /\ ~r.hot => (InForce' => r.next = config)
  <2>1. Told1 /\ ViewInv
    BY <1>10 DEF IInv, DataInv
  <2>2. \A e \in Clients \ {c} : ~Written(client[e])
    BY <1>3, <1>10, <2>1, SaverAlone
  <2>3. Current(r.before) /\ r.hot = Hot(r.next)
    BY <1>2, <1>10, <2>1 DEF ViewInv, At
  <2> QED
    BY <1>2, <2>2, <2>3 DEF InForce, Waits, Hot, Saves
<1>11. ClientHas(new)
  BY <1>4, <1>8 DEF ClientHas, QuickSteps, ApplySteps, Updating
<1>12. events' \in 0..MaxEvents /\ ops' \in [Domains -> OpStates]
  BY <1>1, <1>2 DEF TypeOK
<1> HIDE DEF new, r, kind
<1> QED
  BY <1>2, <1>3, <1>4, <1>5, <1>6, <1>7, <1>8, <1>10, <1>11, <1>12, SaveStep DEF r

LEMMA UpdateRestoresKeeps ==
  ASSUME IInv, NEW c \in Clients, UpdateRestores(c), UNCHANGED <<found, session, ops, plan>>
  PROVE  IInv'
<1> DEFINE r == client[c]
<1>1. TypeOK /\ ControlInv /\ r \in Client
  BY DEF IInv, ControlInv, TypeOK
<1>2. r.pc = "update_restore" /\ Saves(c, "update", r.before, r.since, Idle)
      /\ UNCHANGED <<config, runner, policy, events, unrestored>>
  BY DEF UpdateRestores, At
<1>3. r.pc \in Updating /\ r.pc \in LockSteps \ {"quick_build"} /\ r.pc \in Viewing \ {"edit"}
      /\ r.pc \notin ApplySteps
  BY <1>2 DEF Updating, LockSteps, Viewing, ApplySteps
<1>4. r.before \in Config /\ r.since \in SUBSET Kinds
  BY <1>1, <1>3 DEF ControlInv, HasConfigs, ClientHas, SinceInv, Client
<1>5. worker.pc \notin Viewing /\ worker.pc # "publish"
  BY <1>1, <1>3, IdleWorker
<1>6. "update" \in Kinds
  BY DEF Kinds
<1>7. ASSUME lost = {}, r.since = {}
      PROVE  /\ \A e \in Clients \ {c} : ~Written(client[e])
             /\ InForce' => r.before = config
  <2>1. Told1 /\ ViewInv
    BY <1>7 DEF IInv, DataInv
  <2>2. \A e \in Clients \ {c} : ~Written(client[e])
    BY <1>3, <1>7, <2>1, SaverAlone
  <2> QED
    BY <1>2, <1>7, <2>1, <2>2 DEF InForce, Waits, ViewInv, Current, Saves
<1>8. ClientHas(Idle)
  BY IdleType DEF ClientHas, QuickSteps, ApplySteps, Updating
<1>9. events' \in 0..MaxEvents /\ ops' \in [Domains -> OpStates]
  BY <1>1, <1>2 DEF TypeOK
<1> HIDE DEF r
<1> QED
  BY <1>2, <1>3, <1>4, <1>5, <1>6, <1>7, <1>8, <1>9, IdleType, SaveStep DEF r

LEMMA RunSavesKeeps ==
  ASSUME IInv, NEW c \in Clients, RunSaves(c),
         UNCHANGED <<runner, session, ops, plan, found, unrestored>>
  PROVE  IInv'
<1> DEFINE r == client[c]
           maps == Pruned(r.report, config.domains)
           next == [config EXCEPT !.maps = maps]
           new == [r EXCEPT !.pc = "run_publish", !.report = maps]
<1>1. TypeOK /\ ControlInv /\ r \in Client /\ r.report \in Maps /\ config \in Config
  BY DEF IInv, ControlInv, TypeOK, Client
<1>2. maps \in Maps
  BY <1>1, PrunedType
<1> HIDE DEF maps
<1>3. next \in Config /\ next.maps = maps
  BY <1>1, <1>2, ConfigFields DEF Config
<1>4. r.pc = "run_return" /\ Saves(c, "run", next, NotInMemory, new)
      /\ UNCHANGED <<config, policy, events>>
  BY <1>3 DEF RunSaves, At, maps
<1> HIDE DEF next
<1>5. r.pc \in LockSteps \ {"quick_build"} /\ r.pc \notin Viewing /\ r.pc \notin Saved
      /\ r.pc \notin ApplySteps
  BY <1>4 DEF LockSteps, Viewing, ApplySteps, Saved
<1>6. worker.pc # "publish"
  BY <1>1, <1>5 DEF ControlInv, Exclusion
<1>7. NotInMemory \subseteq {"apply", "restart"} /\ NotInMemory \in SUBSET Kinds
  BY <1>1, <1>5, <1>6, LockedUnpublished, UnpublishedKinds
<1>8. "run" \in Kinds /\ "run_publish" \in ClientSteps
  BY DEF Kinds, ClientSteps, LockSteps
<1>9. new \in Client
  BY <1>1, <1>2, <1>8, ClientFields, Zenon
<1>10. new.pc = "run_publish" /\ new.report = maps /\ new.since = r.since
  BY <1>1 DEF Client
<1>11. r.since = {}
  BY <1>1, <1>5 DEF ControlInv, SinceInv
<1>12. lost = {} /\ NotInMemory = {} => \A e \in Clients \ {c} : ~Written(client[e])
  BY <1>1, UnpublishedKinds DEF Quiescent
<1> HIDE DEF new
<1>13. ClientHas(new)
  BY <1>10 DEF ClientHas, QuickSteps, ApplySteps, Updating
<1>14. events' \in 0..MaxEvents /\ ops' \in [Domains -> OpStates]
  BY <1>1, <1>4 DEF TypeOK
<1>15. new.pc \notin Updating
  BY <1>10 DEF Updating
<1>16. next = [config EXCEPT !.maps = new.report]
  BY <1>10 DEF next
<1> HIDE DEF r
<1> QED
  BY <1>3, <1>4, <1>5, <1>6, <1>7, <1>8, <1>9, <1>10, <1>11, <1>12, <1>13, <1>14, <1>15, <1>16,
     SaveStep DEF r

LEMMA QuickSavesKeeps ==
  ASSUME IInv, NEW c \in Clients, QuickSaves(c), UNCHANGED <<ops, found, unrestored>>
  PROVE  IInv'
<1> DEFINE r == client[c]
           maps == IF Ready(r.report, r.next.domains) THEN Pruned(r.report, r.next.domains)
                   ELSE r.next.maps
           next == [r.next EXCEPT !.maps = maps]
           new == [r EXCEPT !.pc = "quick_activate", !.next = next]
<1>1. TypeOK /\ ControlInv /\ r \in Client /\ r.report \in Maps
  BY DEF IInv, ControlInv, TypeOK, Client
<1>2. r.pc = "quick_return" /\ Saves(c, "quick", next, r.since, new)
      /\ UNCHANGED <<config, runner, session, policy, plan, events>>
  BY DEF QuickSaves, At
<1>3. r.pc \in LockSteps \ {"quick_build"} /\ r.pc \in Viewing \ {"edit"}
      /\ r.pc \notin Stale /\ r.pc \in QuickSteps
  BY <1>2 DEF LockSteps, Viewing, ApplySteps, QuickSteps, Stale, Updating
<1>4. r.next \in Config /\ r.next.maps \in Maps
  BY <1>1, <1>3 DEF ControlInv, HasConfigs, ClientHas, Config
<1>5. maps \in Maps
  BY <1>1, <1>4, PrunedType
<1> HIDE DEF maps
<1>6. next \in Config /\ SettingsOf(next) = SettingsOf(r.next) /\ next.domains = r.next.domains
  BY <1>4, <1>5, ConfigFields DEF Config, SettingsOf
<1> HIDE DEF next
<1>7. worker.pc # "publish"
  BY <1>1, <1>3 DEF ControlInv, Exclusion
<1>8. r.since \in SUBSET Kinds /\ r.since \subseteq {"apply", "restart"}
  BY <1>1, <1>3 DEF ControlInv, SinceInv, Client
<1>9. "quick" \in Kinds /\ "quick_activate" \in ClientSteps
  BY DEF Kinds, ClientSteps, LockSteps
<1>10. new \in Client
  BY <1>1, <1>6, <1>9, ClientFields, Zenon
<1>11. /\ new.pc = "quick_activate" /\ new.next = next /\ new.since = r.since
       /\ new.session = r.session
  BY <1>1 DEF Client
<1> HIDE DEF new
<1>12. new.session = session + 1 /\ runner[session + 1] = SettingsOf(new.next)
  BY <1>1, <1>3, <1>6, <1>11 DEF ControlInv, Sessions
<1>13. ASSUME lost = {}, r.since = {}
       PROVE  /\ \A e \in Clients \ {c} : ~Written(client[e])
              /\ new.next.domains = config.domains
  <2>1. Told1 /\ ViewInv
    BY <1>13 DEF IInv, DataInv
  <2>2. \A e \in Clients \ {c} : ~Written(client[e])
    BY <1>3, <1>13, <2>1, SaverAlone
  <2> QED
    BY <1>3, <1>6, <1>11, <2>1, <2>2 DEF ViewInv
<1>14. ClientHas(new)
  BY <1>6, <1>11 DEF ClientHas, ApplySteps, Updating
<1>15. events' \in 0..MaxEvents /\ ops' \in [Domains -> OpStates]
  BY <1>1, <1>2 DEF TypeOK
<1>16. new.pc \notin Updating
  BY <1>11 DEF Updating
<1> HIDE DEF r
<1> QED
  BY <1>2, <1>3, <1>6, <1>7, <1>8, <1>9, <1>10, <1>11, <1>12, <1>13, <1>14, <1>15, <1>16,
     SaveStep DEF r

-----------------------------------------------------------------------------
(* Adding a manual domain *)

LEMMA AddKeeps ==
  ASSUME IInv, NEW c \in Clients, NEW d \in Domains, Add(c, d)
  PROVE  IInv'
<1> DEFINE D == config.domains \cup {d}
           next == [config EXCEPT !.domains = D, !.maps = Pruned(config.maps, D)]
           new == [Idle EXCEPT !.pc = "add_publish", !.next = next, !.before = config]
<1>1. TypeOK /\ ControlInv /\ config \in Config /\ config.maps \in Maps
      /\ config.domains \in SUBSET Domains
  BY DEF IInv, ControlInv, TypeOK, Config
<1>2. /\ client[c].pc = "idle" /\ LockFree /\ NoOperation /\ Accept
      /\ UNCHANGED <<config, runner, session, policy, plan, found, unrestored>>
  BY DEF Add, At
<1>3. \A e \in Domains : ops[e] \notin Active
  BY <1>2 DEF NoOperation
<1>4. ~Working /\ worker.pc \notin Viewing /\ worker.pc # "publish"
  BY <1>1, <1>2, IdleWorker
<1>5. events' \in 0..MaxEvents
  BY <1>1, <1>2, Accepted
<1>6. CASE Saves(c, "add", next, NotInMemory, new) /\ ops' = [ops EXCEPT ![d] = "pending"]
  <2>1. D \in SUBSET Domains /\ Pruned(config.maps, D) \in Maps
    BY <1>1, PrunedType
  <2> HIDE DEF D
  <2>2. next \in Config
    BY <1>1, <2>1, ConfigFields, Zenon
  <2>3. next.domains = D /\ next.managed = config.managed
    BY <1>1 DEF Config
  <2> HIDE DEF next
  <2>4. "add" \in Kinds /\ "add_publish" \in ClientSteps
    BY DEF Kinds, ClientSteps, LockSteps
  <2>5. new \in Client
    BY <1>1, <2>2, <2>4, IdleType, ClientFields, Zenon
  <2>6. new.pc = "add_publish" /\ new.next = next /\ new.before = config /\ new.since = {}
    BY IdleType DEF Client
  <2> HIDE DEF new
  <2>7. client[c].pc \notin Saved
    BY <1>2 DEF Saved, ApplySteps
  <2>8. NotInMemory \subseteq {"apply", "restart"} /\ NotInMemory \in SUBSET Kinds
    BY <1>1, <1>2, <1>4, <2>7, LockedUnpublished, UnpublishedKinds
  <2>9. ops' \in [Domains -> OpStates]
    BY <1>1, <1>6 DEF TypeOK, OpStates
  <2>10. \A e \in Domains : ops'[e] \in Active => e = d
    BY <1>1, <1>3, <1>6 DEF TypeOK
  <2>11. ClientMoves(c, new, {"add"}) /\ WorkerHears({"add"})
    BY <1>1, <1>6, <2>4, <2>5, ClientSaves DEF TypeOK
  <2>12. Operations'
    BY <1>4, <2>6, <2>10, <2>11 DEF Operations, ClientMoves, WorkerHears, Working, At
  <2>13. ClientHas(new)
    BY <1>1, <2>2, <2>6 DEF ClientHas, QuickSteps
  <2>14. /\ \A e \in Domains : ops[e] \in Active \cup {"failed"} => ops'[e] \in Active \cup {"failed"}
         /\ \A e \in Domains : ops'[e] = "removed" => ops[e] = "removed"
         /\ \A e \in Domains : ops'[e] = "pending" => e = d
    BY <1>1, <1>3, <1>6, <2>10 DEF TypeOK, Active
  <2>15. NotInMemory = {} => \A e \in Clients \ {c} : ~Written(client[e])
    BY <1>1, UnpublishedKinds DEF Quiescent
  <2> QED
    BY <1>1, <1>2, <1>4, <1>5, <1>6, <2>2, <2>3, <2>4, <2>5, <2>6, <2>8, <2>9, <2>12, <2>13,
       <2>14, <2>15, SaveStep DEF D
<1>7. CASE ops' = [ops EXCEPT ![d] = "failed"] /\ UNCHANGED <<file, client, worker, lost>>
  <2>1. \A e \in Domains : ops'[e] \notin Active
    BY <1>1, <1>3, <1>7 DEF TypeOK, Active
  <2>2. \A e \in Domains : ops'[e] = ops[e] \/ ops'[e] = "failed"
    BY <1>1, <1>7 DEF TypeOK
  <2>3. TypeOK'
    BY <1>1, <1>2, <1>5, <1>7 DEF TypeOK, OpStates
  <2>4. HasConfigs' /\ Exclusion' /\ Sessions' /\ SinceInv' /\ OnlyKnownOverwrites'
    <3>1. HasConfigs /\ Exclusion /\ Sessions /\ SinceInv /\ OnlyKnownOverwrites
      BY <1>1 DEF ControlInv
    <3>2. HasConfigs' /\ Exclusion'
      BY <1>2, <1>7, <3>1 DEF HasConfigs, ClientHas, Looks, Removes, Working, Exclusion, HoldsSlot, At
    <3>3. Sessions' /\ SinceInv' /\ OnlyKnownOverwrites'
      BY <1>2, <1>7, <3>1 DEF Sessions, SinceInv, OnlyKnownOverwrites, At
    <3> QED
      BY <3>2, <3>3
  <2>5. Operations'
    BY <1>4, <1>7, <2>1 DEF Operations, Working
  <2>6. ASSUME lost' = {} PROVE DataInv'
    <3>1. DataInv
      BY <1>7, <2>6 DEF IInv
    <3>2. Told1' /\ FileInv'
      BY <1>2, <1>7, <3>1
         DEF DataInv, Told1, FileInv, Looks, Removes, Quiescent, InForce, Waits, Desired, At
    <3>3. ViewInv'
      <4>1. \A cfg : Hot(cfg)' = Hot(cfg)
        BY <1>2 DEF Hot
      <4>2. \A cfg : Current(cfg)' <=> Current(cfg)
        BY <1>2 DEF Current
      <4>3. \A e \in Domains : ops'[e] # "pending"
        BY <2>1 DEF Active
      <4> QED
        BY <1>2, <1>7, <3>1, <4>1, <4>2, <4>3 DEF DataInv, ViewInv, At
    <3>4. WorkerInv'
      BY <1>1, <1>2, <1>7, <3>1, KeepsWorker, WorkerStays DEF DataInv, TypeOK
    <3>5. RunnerInv' /\ PolicyInv'
      BY <1>2, <1>3, <1>7, <2>2, <3>1
         DEF DataInv, RunnerInv, PolicyInv, NoneReloads, At, InPolicy
    <3> QED
      BY <3>2, <3>3, <3>4, <3>5 DEF DataInv
  <2> QED
    BY <2>3, <2>4, <2>5, <2>6 DEF IInv, ControlInv
<1> QED
  BY <1>6, <1>7 DEF Add

-----------------------------------------------------------------------------
(* Domain apply *)

LEMMA ApplySavesKeeps ==
  ASSUME IInv, NEW c \in Clients, NEW d \in Domains, NEW address \in Addresses,
         ApplySaves(c, d, address), UNCHANGED <<runner, session, ops, plan, found>>
  PROVE  IInv'
<1> DEFINE maps == FullMappings(d, address)
           next == [config EXCEPT !.maps = maps]
           new == [Idle EXCEPT !.pc = "apply_refresh", !.next = next, !.before = config,
                               !.session = session]
<1>1. TypeOK /\ ControlInv /\ config \in Config /\ config.maps \in Maps /\ policy.maps \in Maps
      /\ session \in 0..MaxSessions
  BY DEF IInv, ControlInv, TypeOK, Config, Policy
<1>2. maps \in Maps
  BY <1>1 DEF FullMappings, Maps
<1> HIDE DEF maps
<1>3. next \in Config
  BY <1>1, <1>2, ConfigFields
<1>4. SettingsOf(next) = SettingsOf(config)
  BY <1>1 DEF Config, SettingsOf
<1>5. client[c].pc = "idle" /\ ApplyFree /\ Accept
      /\ Saves(c, "apply", next, NotInMemory, new)
      /\ UNCHANGED <<config, policy, unrestored>>
  BY DEF ApplySaves, At, maps
<1> HIDE DEF next
<1>6. "apply" \in Kinds /\ "apply_refresh" \in ClientSteps
  BY DEF Kinds, ClientSteps, ApplySteps
<1>7. new \in Client
  BY <1>1, <1>3, <1>6, IdleType, ClientFields, Zenon
<1>8. /\ new.pc = "apply_refresh" /\ new.next = next /\ new.before = config
      /\ new.session = session /\ new.since = {}
  BY IdleType DEF Client
<1> HIDE DEF new
<1>9. NotInMemory \in SUBSET Kinds
  BY <1>1, UnpublishedKinds
<1>10. \A e \in Clients : ~At(e, "update_publish")
  BY <1>5 DEF ApplyFree, At
<1>11. NotInMemory = {} => Quiescent
  BY <1>1, UnpublishedKinds
<1>12. ClientHas(new)
  BY <1>1, <1>3, <1>8 DEF ClientHas, QuickSteps
<1>13. events' \in 0..MaxEvents
  BY <1>1, <1>5, Accepted
<1>14. ops' \in [Domains -> OpStates]
  BY <1>1 DEF TypeOK
<1>15. new.pc \notin LockSteps /\ new.pc \notin Updating
  BY <1>8 DEF LockSteps, Updating
<1> QED
  BY <1>3, <1>4, <1>5, <1>6, <1>7, <1>8, <1>9, <1>10, <1>11, <1>12, <1>13, <1>14, <1>15,
     SaveStep DEF Quiescent

-----------------------------------------------------------------------------
(* Steps of a request that has saved and has not published *)

\* What is written stays written, or is given up with unrestored; the Runner and
\* the policy follow.
LEMMA OnwardStep ==
  ASSUME IInv, NEW c \in Clients, NEW new \in Client, Written(client[c]),
         client' = [client EXCEPT ![c] = new],
         UNCHANGED <<file, config, session, ops, worker, plan, events, found, lost>>,
         \/ /\ new.pc = "idle" /\ new.since = {} /\ unrestored' = TRUE
         \/ /\ UNCHANGED unrestored
            /\ \/ /\ client[c].pc = "update_reload"
                  /\ new.pc \in {"update_publish", "update_restore"}
               \/ client[c].pc = "apply_refresh" /\ new.pc \in {"apply_publish", "apply_restore"}
            /\ new.next = client[c].next /\ new.before = client[c].before
            /\ new.session = client[c].session /\ new.since = client[c].since,
         new.pc = "update_publish" => \A e \in Clients : client[e].pc \notin ApplySteps,
         client[c].pc \notin {"add_publish", "run_publish"},
         runner' \in [0..MaxSessions -> Settings],
         runner' = runner \/ client[c].pc \in LockSteps,
         policy' \in Policy, ~policy'.exists => policy'.maps = NoMaps,
         lost = {} => WorkerInv' /\ RunnerInv' /\ PolicyInv'
  PROVE  IInv'
<1>1. TypeOK /\ ControlInv /\ client[c] \in Client
  BY DEF IInv, ControlInv, TypeOK
<1>2. ClientMoves(c, new, {}) /\ WorkerHears({})
  BY <1>1, ClientStep, WorkerStays DEF TypeOK
<1>3. new.pc \in {"idle", "update_publish", "update_restore", "apply_publish", "apply_restore"}
  OBVIOUS
<1>4. /\ new.pc \notin {"run_execute", "quick_execute", "quick_build", "update_save",
                        "update_reload", "add_publish"} \cup QuickSteps
      /\ new.pc \in ApplySteps => client[c].pc \in ApplySteps
      /\ new.pc \in LockSteps => client[c].pc \in LockSteps \ {"quick_build"}
      /\ new.pc \in Updating \cup {"add_publish"} => client[c].pc \in Updating
      /\ new.pc \in Viewing <=> new.pc # "idle"
      /\ Written(new) <=> new.pc # "idle"
  BY <1>3 DEF QuickSteps, ApplySteps, LockSteps, Updating, Viewing, Written, Saved
<1>5. TypeOK'
  BY <1>1, <1>2 DEF TypeOK, ClientMoves
<1>6. ClientHas(client[c])
  BY <1>1 DEF ControlInv, HasConfigs
<1>7. ClientHas(new)
  BY <1>3, <1>4, <1>6 DEF ClientHas, ApplySteps, Updating
<1>8. HasConfigs'
  BY <1>1, <1>2, <1>7, KeepsConfigs
<1>9. new.pc \in ApplySteps => \A e \in Clients : ~At(e, "update_publish")
  BY <1>1, <1>4 DEF ControlInv, Exclusion
<1>10. Exclusion'
  BY <1>1, <1>2, <1>4, <1>9, KeepsExclusion
<1>11. Operations'
  BY <1>1, <1>2, KeepsOperations
<1>12. Sessions'
  BY <1>1, <1>2, <1>4, KeepsSessions
<1>13. SinceInv'
  <2>1. new.pc \notin Stale => new.pc = "idle"
    BY <1>3 DEF Stale, Updating, ApplySteps
  <2>2. new.pc = "idle" => new.since = {}
    OBVIOUS
  <2> QED
    BY <1>1, <1>2, <1>4, <2>1, <2>2, KeepsSince
<1>14. ControlInv'
  BY <1>1, <1>5, <1>8, <1>10, <1>11, <1>12, <1>13 DEF ControlInv, OnlyKnownOverwrites
<1>15. ASSUME lost = {} PROVE DataInv'
  <2>1. DataInv
    BY <1>15 DEF IInv
  <2>2. client[c].since = {}
    BY <2>1 DEF DataInv, Told1
  <2>3. Told1'
    BY <1>1, <1>2, <2>1, <2>2, ToldOnward DEF DataInv
  <2>4. FileInv'
    <3>1. CASE new.pc = "idle" /\ unrestored' = TRUE
      <4>1. \A e \in Clients : ~Written(client'[e])
        BY <1>2, <1>4, <2>1, <3>1, OneWriter DEF DataInv, ClientMoves, Hears, Written
      <4>2. worker.pc # "publish"
        BY <2>1, OneWriter DEF DataInv
      <4> QED
        BY <3>1, <4>1, <4>2 DEF FileInv, InForce
    <3>2. CASE new.pc # "idle" /\ UNCHANGED unrestored
      BY <1>2, <1>3, <1>4, <2>1, <3>2, KeepsFile DEF DataInv, InForce, Waits
    <3> QED
      BY <3>1, <3>2
  <2>5. ViewInv'
    <3>1. unrestored => unrestored'
      OBVIOUS
    <3>2. /\ new.pc = "update_restore" =>
               (~unrestored' /\ new.before.endpoint = config.endpoint => new.before = config)
          /\ new.pc \in ApplySteps =>
               /\ new.before = config /\ SettingsOf(new.next) = SettingsOf(config)
               /\ new.session = session
      BY <1>4, <2>1, <2>2, <3>1 DEF DataInv, ViewInv, At, ApplySteps, Current
    <3> QED
      BY <1>2, <1>4, <2>1, <3>1, <3>2, KeepsViews DEF DataInv
  <2> QED
    BY <1>15, <2>3, <2>4, <2>5 DEF DataInv
<1> QED
  BY <1>14, <1>15 DEF IInv

\* The file could not be restored.
LEMMA GivesUp ==
  ASSUME IInv, NEW c \in Clients, client[c].pc \in {"update_restore", "apply_restore"}, Ends(c),
         unrestored' = TRUE,
         UNCHANGED <<file, config, runner, policy, session, ops, worker, plan, events, found, lost>>
  PROVE  IInv'
<1>1. TypeOK /\ ControlInv /\ HasConfigs
  BY DEF IInv, ControlInv
<1>2. Idle \in Client /\ Idle.pc = "idle" /\ Idle.since = {}
      /\ client' = [client EXCEPT ![c] = Idle]
  BY IdleType DEF Ends
<1>3. Written(client[c]) /\ client[c].pc # "update_publish"
  BY DEF Written, Saved, ApplySteps
<1>4. ClientMoves(c, Idle, {}) /\ WorkerHears({})
  BY <1>1, <1>2, ClientStep, WorkerStays DEF TypeOK
<1>5. lost = {} => WorkerInv' /\ RunnerInv' /\ PolicyInv'
  BY <1>2, <1>3, <1>4, KeepsWorker, KeepsRunner, KeepsPolicy DEF IInv, DataInv
<1> QED
  BY <1>1, <1>2, <1>3, <1>5, OnwardStep DEF TypeOK, HasConfigs

LEMMA UpdateRestoreFailsKeeps ==
  ASSUME IInv, NEW c \in Clients, UpdateRestoreFails(c), UNCHANGED <<found, session, ops, plan>>
  PROVE  IInv'
  BY GivesUp DEF UpdateRestoreFails, At

LEMMA ApplyRestoresKeeps ==
  ASSUME IInv, NEW c \in Clients, ApplyRestores(c), UNCHANGED <<runner, session, ops, plan, found>>
  PROVE  IInv'
<1> DEFINE r == client[c]
<1>1. TypeOK /\ ControlInv /\ r \in Client
  BY DEF IInv, ControlInv, TypeOK
<1>2. r.pc = "apply_restore" /\ UNCHANGED <<config, policy, events>>
  BY DEF ApplyRestores, At
<1>3. CASE Saves(c, "apply", r.before, r.since, Idle) /\ UNCHANGED unrestored
  <2>1. r.pc \in ApplySteps /\ r.pc \in Viewing \ {"edit"}
    BY <1>2 DEF Viewing, ApplySteps
  <2>2. r.before \in Config /\ r.since \in SUBSET Kinds
    BY <1>1, <2>1 DEF ControlInv, HasConfigs, ClientHas, Client
  <2>3. "apply" \in Kinds
    BY DEF Kinds
  <2>4. ASSUME lost = {}, r.since = {}
        PROVE  /\ \A e \in Clients \ {c} : ~Written(client[e])
               /\ worker.pc # "publish" /\ r.before = config
    <3>1. Told1 /\ ViewInv
      BY <2>4 DEF IInv, DataInv
    <3> QED
      BY <2>1, <2>4, <3>1, SaverAlone DEF ViewInv
  <2>5. ClientHas(Idle)
    BY IdleType DEF ClientHas, QuickSteps, ApplySteps, Updating
  <2>6. events' \in 0..MaxEvents /\ ops' \in [Domains -> OpStates]
    BY <1>1, <1>2 DEF TypeOK
  <2>7. Idle.pc \notin LockSteps \cup Updating
    BY IdleType DEF LockSteps, Updating
  <2> HIDE DEF r
  <2> QED
    BY <1>2, <1>3, <2>2, <2>3, <2>4, <2>5, <2>6, <2>7, IdleType, SaveStep DEF r
<1>4. CASE Ends(c) /\ unrestored' = TRUE /\ UNCHANGED <<file, worker, lost>>
  BY <1>2, <1>4, GivesUp
<1> QED
  BY <1>3, <1>4 DEF ApplyRestores

LEMMA UpdateReloadsKeeps ==
  ASSUME IInv, NEW c \in Clients, UpdateReloads(c), UNCHANGED <<found, session, ops, plan>>
  PROVE  IInv'
<1> DEFINE r == client[c]
           next == r.next
<1>1. TypeOK /\ ControlInv /\ HasConfigs /\ r \in Client
  BY DEF IInv, ControlInv, TypeOK
<1>2. r.pc = "update_reload" /\ Written(r)
      /\ UNCHANGED <<file, config, worker, events, found, lost, unrestored>>
  BY DEF UpdateReloads, At, Written, Saved
<1>3. r.pc \in Updating /\ r.pc \in LockSteps
  BY <1>2 DEF Updating, LockSteps
<1>4. next \in Config /\ next.domains \in SUBSET Domains
  BY <1>1, <1>3 DEF HasConfigs, ClientHas, Config
<1>5. ~Working
  BY <1>1, <1>3, IdleWorker
<1>6. WorkerInv'
  BY <1>2, <1>5 DEF WorkerInv, Working, HoldsSlot, Looks, Edited
<1>7. ASSUME NEW step \in {"update_publish", "update_restore"}, Goes(c, step)
      PROVE  LET new == [r EXCEPT !.pc = step] IN
             /\ new \in Client /\ client' = [client EXCEPT ![c] = new]
             /\ new.pc = step /\ new.next = r.next /\ new.before = r.before
             /\ new.session = r.session /\ new.since = r.since
             /\ ClientMoves(c, new, {})
  <2> DEFINE new == [r EXCEPT !.pc = step]
  <2>1. step \in ClientSteps
    BY DEF ClientSteps, LockSteps
  <2>2. new \in Client
    BY <1>1, <2>1, ClientFields
  <2>3. client' = [client EXCEPT ![c] = new]
    BY <1>1, <1>7 DEF Goes, TypeOK
  <2>4. ClientMoves(c, new, {})
    BY <1>1, <2>2, <2>3, ClientStep DEF TypeOK
  <2> QED
    BY <1>1, <2>2, <2>3, <2>4 DEF Client
<1>8. CASE /\ ApplyFree
           /\ runner' = [runner EXCEPT ![session] = SettingsOf(next)]
           /\ IF policy.exists THEN Commits(next.domains, policy.maps) ELSE UNCHANGED policy
           /\ Goes(c, "update_publish")
  <2> DEFINE new == [r EXCEPT !.pc = "update_publish"]
  <2>1. /\ new \in Client /\ client' = [client EXCEPT ![c] = new]
        /\ new.pc = "update_publish" /\ new.next = r.next /\ new.before = r.before
        /\ new.session = r.session /\ new.since = r.since
        /\ ClientMoves(c, new, {})
    BY <1>7, <1>8
  <2> HIDE DEF new
  <2>2. /\ runner' \in [0..MaxSessions -> Settings] /\ runner'[session] = SettingsOf(next)
    BY <1>1, <1>4, <1>8, SettingsType DEF TypeOK
  <2>3. /\ policy' \in Policy /\ (~policy'.exists => policy'.maps = NoMaps)
        /\ policy'.exists => Mapped(policy'.maps) = next.domains
    <3>1. CASE policy.exists
      BY <1>4, <1>8, <3>1, CommitType DEF Commits
    <3>2. CASE ~policy.exists
      BY <1>1, <1>8, <3>2 DEF TypeOK, HasConfigs
    <3> QED
      BY <3>1, <3>2
  <2>4. \A e \in Clients : At(e, "update_publish")' <=> e = c
    <3>1. \A e \in Clients \ {c} : client[e].pc # "update_publish"
      BY <1>1, <1>3 DEF ControlInv, Exclusion, LockSteps
    <3> QED
      BY <2>1, <3>1 DEF At, ClientMoves, Hears
  <2>5. client'[c].next = next /\ session' = session
    BY <2>1 DEF ClientMoves
  <2>6. RunnerInv' /\ PolicyInv'
    BY <2>2, <2>3, <2>4, <2>5 DEF RunnerInv, PolicyInv, NoneReloads
  <2>7. \A e \in Clients : client[e].pc \notin ApplySteps
    BY <1>8 DEF ApplyFree
  <2> QED
    BY <1>2, <1>3, <1>6, <2>1, <2>2, <2>3, <2>6, <2>7, OnwardStep
<1>9. CASE /\ IF policy.exists /\ ApplyFree
                THEN RefreshFails(next.domains, policy.maps) ELSE UNCHANGED policy
           /\ Goes(c, "update_restore")
           /\ UNCHANGED runner
  <2> DEFINE new == [r EXCEPT !.pc = "update_restore"]
  <2>1. /\ new \in Client /\ client' = [client EXCEPT ![c] = new]
        /\ new.pc = "update_restore" /\ new.next = r.next /\ new.before = r.before
        /\ new.session = r.session /\ new.since = r.since
        /\ ClientMoves(c, new, {})
    BY <1>7, <1>9
  <2> HIDE DEF new
  <2>2. /\ policy' \in Policy /\ (~policy'.exists => policy'.maps = NoMaps)
        /\ policy' = policy \/ ~policy'.reported
    BY <1>1, <1>4, <1>9, RefreshFailsType DEF TypeOK, HasConfigs
  <2>3. ASSUME lost = {} PROVE RunnerInv' /\ PolicyInv'
    <3>1. RunnerInv'
      BY <1>2, <1>9, <2>1, <2>3, KeepsRunner DEF IInv, DataInv
    <3>2. CASE policy' = policy
      BY <1>2, <2>1, <2>3, <3>1, <3>2, KeepsPolicy DEF IInv, DataInv
    <3>3. CASE ~policy'.reported
      BY <3>1, <3>3 DEF PolicyInv
    <3> QED
      BY <2>2, <3>2, <3>3
  <2> QED
    BY <1>1, <1>2, <1>3, <1>6, <1>9, <2>1, <2>2, <2>3, OnwardStep DEF TypeOK
<1> QED
  BY <1>8, <1>9 DEF UpdateReloads

\* A policy that domain apply refreshed.
LEMMA ApplyMoves ==
  ASSUME IInv, NEW c \in Clients, At(c, "apply_refresh"),
         NEW step \in {"apply_publish", "apply_restore"}, Goes(c, step),
         UNCHANGED <<file, config, runner, session, ops, worker, plan, events, found, lost,
                     unrestored>>,
         policy' \in Policy, ~policy'.exists => policy'.maps = NoMaps,
         lost = {} /\ NoneReloads' => policy' = policy \/ PolicyInv'
  PROVE  IInv'
<1> DEFINE r == client[c]
           new == [r EXCEPT !.pc = step]
<1>1. TypeOK /\ ControlInv /\ r \in Client
  BY DEF IInv, ControlInv, TypeOK
<1>2. step \in ClientSteps
  BY DEF ClientSteps, ApplySteps
<1>3. new \in Client
  BY <1>1, <1>2, ClientFields
<1>4. client' = [client EXCEPT ![c] = new]
  BY <1>1 DEF Goes, TypeOK
<1>5. /\ new.pc = step /\ new.next = r.next /\ new.before = r.before
      /\ new.session = r.session /\ new.since = r.since
  BY <1>1 DEF Client
<1> HIDE DEF new
<1>6. ClientMoves(c, new, {}) /\ WorkerHears({})
  BY <1>1, <1>3, <1>4, ClientStep, WorkerStays DEF TypeOK
<1>7. r.pc = "apply_refresh" /\ Written(r) /\ r.pc \in ApplySteps
  BY DEF At, Written, Saved, ApplySteps
<1>8. NoneReloads'
  <2>1. \A e \in Clients : ~At(e, "update_publish")
    BY <1>1, <1>7 DEF ControlInv, Exclusion
  <2> QED
    BY <1>5, <1>6, <2>1 DEF NoneReloads, At, ClientMoves, Hears
<1>9. ASSUME lost = {} PROVE WorkerInv' /\ RunnerInv' /\ PolicyInv'
  <2>1. DataInv
    BY <1>9 DEF IInv
  <2>2. Looks => worker'.since # {}
    BY <1>7, <2>1 DEF DataInv, Told1
  <2>3. WorkerInv'
    BY <1>6, <2>1, <2>2, KeepsWorker DEF DataInv, Looks
  <2>4. RunnerInv'
    BY <1>3, <1>5, <1>6, <1>7, <2>1, KeepsRunner DEF DataInv
  <2>5. PolicyInv'
    BY <1>3, <1>5, <1>6, <1>7, <1>8, <1>9, <2>1, KeepsPolicy DEF DataInv
  <2> QED
    BY <2>3, <2>4, <2>5
<1> HIDE DEF r
<1> QED
  BY <1>1, <1>3, <1>4, <1>5, <1>7, <1>9, OnwardStep DEF r, TypeOK

LEMMA ApplySucceedsKeeps ==
  ASSUME IInv, NEW c \in Clients, ApplySucceeds(c), UNCHANGED <<runner, session, ops, plan, found>>
  PROVE  IInv'
<1> DEFINE r == client[c]
           D == runner[r.session].domains
<1>1. TypeOK /\ ControlInv /\ HasConfigs /\ r \in Client
  BY DEF IInv, ControlInv, TypeOK
<1>2. r.pc = "apply_refresh" /\ r.pc \in ApplySteps
  BY DEF ApplySucceeds, At, ApplySteps
<1>3. r.next \in Config /\ r.next.maps \in Maps
  BY <1>1, <1>2 DEF HasConfigs, ClientHas, Config
<1>4. D \in SUBSET Domains
  BY <1>1 DEF TypeOK, Client, Settings
<1>5. NoneReloads
  BY <1>1, <1>2 DEF ControlInv, Exclusion, NoneReloads
<1>6. ASSUME lost = {} PROVE \A d \in D : d \in config.domains \/ ops[d] # "removed"
  <2>1. r.session = session
    BY <1>2, <1>6 DEF IInv, DataInv, ViewInv
  <2> QED
    BY <1>4, <1>5, <1>6, <2>1 DEF IInv, DataInv, RunnerInv, Active
<1> HIDE DEF D
<1>7. CASE policy.exists /\ Commits(D, r.next.maps)
  <2>1. policy' \in Policy /\ policy'.exists /\ Mapped(policy'.maps) = D
    BY <1>4, <1>7, CommitType DEF Commits
  <2>2. lost = {} /\ NoneReloads' => PolicyInv'
    BY <1>4, <1>6, <2>1, PolicyCommitted DEF ApplySucceeds
  <2> QED
    BY <2>1, <2>2, ApplyMoves DEF ApplySucceeds
<1>8. CASE policy' = [exists |-> TRUE, reported |-> policy.reported,
                      maps |-> [e \in Domains |-> IF e \in D /\ r.next.maps[e] # NoAddress
                                                  THEN r.next.maps[e] ELSE policy.maps[e]]]
  <2>1. policy \in Policy
    BY <1>1 DEF TypeOK
  <2>2. policy' \in Policy /\ policy'.exists
    BY <1>3, <1>8, <2>1 DEF Policy, Maps
  <2>3. \A d \in Domains : InPolicy(d)' => d \in D \/ InPolicy(d)
    <3>1. ASSUME NEW d \in Domains, d \notin D PROVE policy'.maps[d] = policy.maps[d]
      BY <1>8, <3>1
    <3>2. ~policy.exists => \A d \in Domains : policy.maps[d] = NoAddress
      BY <1>1 DEF HasConfigs, NoMaps
    <3> QED
      BY <3>1, <3>2 DEF InPolicy
  <2>4. policy'.reported = policy.reported
    BY <1>8
  <2>5. lost = {} /\ NoneReloads' => PolicyInv'
    BY <1>5, <1>6, <2>3, <2>4 DEF IInv, DataInv, PolicyInv, NoneReloads, ApplySucceeds
  <2> QED
    BY <2>2, <2>5, ApplyMoves DEF ApplySucceeds
<1> QED
  BY <1>7, <1>8 DEF ApplySucceeds, Applied, D

LEMMA ApplyDefersKeeps ==
  ASSUME IInv, NEW c \in Clients, ApplyDefers(c), UNCHANGED <<runner, session, ops, plan, found>>
  PROVE  IInv'
<1>1. TypeOK /\ HasConfigs
  BY DEF IInv, ControlInv
<1> QED
  BY <1>1, ApplyMoves DEF ApplyDefers, TypeOK, HasConfigs

LEMMA ApplyFailsKeeps ==
  ASSUME IInv, NEW c \in Clients, ApplyFails(c), UNCHANGED <<runner, session, ops, plan, found>>
  PROVE  IInv'
<1> DEFINE D == runner[client[c].session].domains
<1>1. TypeOK /\ HasConfigs /\ client[c] \in Client
  BY DEF IInv, ControlInv, TypeOK
<1>2. D \in SUBSET Domains
  BY <1>1 DEF TypeOK, Client, Settings
<1>3. /\ policy' \in Policy /\ (~policy'.exists => policy'.maps = NoMaps)
      /\ policy' = policy \/ ~policy'.reported
  BY <1>1, <1>2, RefreshFailsType DEF ApplyFails, TypeOK, HasConfigs
<1>4. policy' = policy \/ PolicyInv'
  BY <1>3 DEF PolicyInv
<1> QED
  BY <1>3, <1>4, ApplyMoves DEF ApplyFails

-----------------------------------------------------------------------------
(* Publications of a request *)

\* Who publishes is idle afterwards and holds nothing.
LEMMA PublishControl ==
  ASSUME ControlInv, NEW c \in Clients, NEW kind \in Kinds, NEW cfg \in Config,
         Publishes(c, kind, cfg), client[c].pc # "add_publish",
         kind \in {"apply", "update"} \/ client[c].pc \notin Stale,
         UNCHANGED <<file, runner, policy, ops, worker, events, unrestored>>,
         plan' \in Config \cup {NoConfig}, found' \in BOOLEAN,
         \/ UNCHANGED session
         \/ client[c].pc \in QuickSteps /\ session' = client[c].session
  PROVE  ControlInv' /\ ClientMoves(c, Idle, {}) /\ WorkerHears({})
<1>1. TypeOK /\ client[c] \in Client
  BY DEF ControlInv, TypeOK
<1>2. Idle \in Client /\ Idle.pc = "idle" /\ Idle.since = {}
  BY IdleType
<1>3. ClientMoves(c, Idle, {}) /\ WorkerHears({})
  BY <1>1, <1>2, ClientStep, WorkerStays DEF TypeOK, Publishes
<1>4. client[c].since \in SUBSET Kinds
      /\ (kind \in {"apply", "update"} \/ client[c].since \subseteq {"apply", "restart"})
  BY <1>1 DEF ControlInv, SinceInv, Client
<1>5. {kind} \X client[c].since \subseteq Kinds \X Kinds
      /\ {kind} \X client[c].since \subseteq KnownOverwrites
  BY <1>4 DEF KnownOverwrites
<1>6. lost' \subseteq Kinds \X Kinds /\ lost' \subseteq KnownOverwrites
  <2>1. lost \subseteq Kinds \X Kinds /\ lost \subseteq KnownOverwrites
    BY DEF ControlInv, TypeOK, OnlyKnownOverwrites
  <2>2. lost' = lost \cup ({kind} \X client[c].since)
    BY DEF Publishes
  <2> QED
    BY <1>5, <2>1, <2>2, Zenon
<1>7. session' \in 0..MaxSessions
  BY <1>1 DEF TypeOK, Client
<1>8. TypeOK'
  BY <1>1, <1>3, <1>6, <1>7 DEF TypeOK, ClientMoves, Publishes
<1>9. "idle" \notin Viewing \cup Saved \cup LockSteps \cup Updating \cup QuickSteps \cup ApplySteps
  BY DEF Viewing, Saved, LockSteps, Updating, QuickSteps, ApplySteps
<1>10. HasConfigs'
  BY <1>2, <1>3, <1>9, KeepsConfigs DEF ControlInv, HasConfigs, ClientHas
<1>11. Exclusion'
  BY <1>2, <1>3, <1>9, KeepsExclusion
<1>12. Operations'
  BY <1>2, <1>3, KeepsOperations
<1>13. Sessions'
  <2>1. CASE UNCHANGED session
    BY <1>2, <1>3, <1>9, <2>1, KeepsSessions
  <2>2. CASE client[c].pc \in QuickSteps /\ session' = client[c].session
    <3>1. session' = session + 1 /\ worker.session <= session
      BY <2>2 DEF ControlInv, Sessions
    <3>2. worker'.session <= session'
      BY <1>1, <3>1, BoundsAreNaturals DEF TypeOK, Worker
    <3>3. client[c].pc \in LockSteps
      BY <2>2 DEF QuickSteps, LockSteps
    <3>4. \A e \in Clients : client'[e].pc \notin LockSteps
      BY <1>2, <1>3, <1>9, <3>3 DEF ControlInv, Exclusion, ClientMoves, Hears
    <3> QED
      BY <3>2, <3>4 DEF Sessions, At, QuickSteps, LockSteps
  <2> QED
    BY <2>1, <2>2
<1>14. SinceInv'
  BY <1>2, <1>3, <1>9, KeepsSince
<1> QED
  BY <1>3, <1>6, <1>8, <1>10, <1>11, <1>12, <1>13, <1>14 DEF ControlInv, OnlyKnownOverwrites

\* Who publishes without an overwrite was alone: file and memory agree, and no
\* other request has a view that it will use.
LEMMA PublishData ==
  ASSUME IInv, NEW c \in Clients, NEW kind, NEW cfg, Publishes(c, kind, cfg),
         Written(client[c]),
         client[c].since \subseteq Kinds,
         lost = {} /\ DataInv => Desired' = cfg,
         \/ UNCHANGED session /\ cfg.domains = config.domains
         \/ \A e \in Clients \ {c} : client[e].pc \notin QuickSteps,
         worker'.pc # "publish" \/ worker' = worker, lost' = {}
  PROVE  lost = {} /\ client[c].since = {} /\ Told1' /\ FileInv' /\ ViewInv'
<1>1. lost = {} /\ DataInv
  BY DEF IInv, Publishes
<1>2. client[c].since = {}
  BY <1>1 DEF DataInv, Told1
<1>3. /\ \A e \in Clients \ {c} : ~Written(client[e])
      /\ worker.pc # "publish"
      /\ \A e \in Clients \ {c} : client[e].pc \in Viewing \ {"edit"} => client[e].since # {}
  BY <1>1, OneWriter DEF DataInv, Told1
<1>4. TypeOK
  BY DEF IInv, ControlInv
<1>5. /\ client'[c] = Idle /\ Idle.pc = "idle"
      /\ \A e \in Clients \ {c} : client'[e] = client[e]
  BY <1>4, IdleType DEF Publishes, TypeOK
<1>6. \A e \in Clients : ~Written(client'[e])
  BY <1>3, <1>5 DEF Written, Saved, ApplySteps
<1>7. worker'.pc # "publish"
  BY <1>3
<1>8. Told1'
  BY <1>6, <1>7 DEF Told1
<1>9. FileInv'
  BY <1>1, <1>6, <1>7 DEF FileInv, Publishes
<1>10. ViewInv'
  <2>1. ASSUME NEW e \in Clients
        PROVE  /\ client'[e].pc \in {"update_save", "update_reload", "update_restore"} =>
                    client'[e].since # {}
               /\ client'[e].pc \notin ApplySteps \cup {"add_publish"}
               /\ client'[e].pc \in QuickSteps => client'[e].next.domains = config'.domains
    <3>1. CASE e = c
      BY <1>5, <3>1 DEF QuickSteps, ApplySteps
    <3>2. CASE e # c
      BY <1>1, <1>3, <1>5, <3>2 DEF Written, Saved, Viewing, DataInv, ViewInv, Publishes
    <3> QED
      BY <3>1, <3>2
  <2> QED
    BY <2>1 DEF ViewInv, At
<1> QED
  BY <1>1, <1>2, <1>8, <1>9, <1>10

\* A publication that leaves the domains, the settings and the Runner alone.
LEMMA PublishMappings ==
  ASSUME IInv, NEW c \in Clients, NEW kind \in Kinds, NEW cfg \in Config,
         Publishes(c, kind, cfg), client[c].pc \in {"run_publish", "apply_publish"},
         kind = "apply" \/ client[c].pc \notin Stale,
         UNCHANGED <<file, runner, policy, ops, worker, events, unrestored, session, plan, found>>,
         lost = {} /\ DataInv => file = cfg /\ SettingsOf(cfg) = SettingsOf(config)
  PROVE  IInv'
<1>1. TypeOK /\ ControlInv /\ client[c].since \subseteq Kinds
  BY DEF IInv, ControlInv, TypeOK, Client
<1>2. Written(client[c])
  BY DEF Written, Saved, ApplySteps
<1>3. ControlInv' /\ ClientMoves(c, Idle, {}) /\ WorkerHears({})
  BY <1>1, PublishControl DEF TypeOK
<1>4. ASSUME lost' = {} PROVE DataInv'
  <2>1. lost = {} /\ DataInv
    BY <1>4 DEF IInv, Publishes
  <2>2. config' = cfg /\ file = cfg /\ cfg.domains = config.domains /\ cfg.managed = config.managed
    BY <2>1 DEF Publishes, SettingsOf
  <2>6. Desired' = cfg
    BY <2>2, ShownAsIs DEF Desired
  <2>3. Told1' /\ FileInv' /\ ViewInv'
    BY <1>1, <1>2, <1>4, <2>2, <2>6, PublishData
  <2>4. WorkerInv'
    BY <1>3, <2>1, <2>2, KeepsWorker DEF DataInv
  <2>5. RunnerInv' /\ PolicyInv'
    BY <1>3, <2>1, <2>2, KeepsRunner, KeepsPolicy, IdleType DEF DataInv
  <2> QED
    BY <2>3, <2>4, <2>5 DEF DataInv
<1> QED
  BY <1>3, <1>4 DEF IInv

LEMMA RunPublishesKeeps ==
  ASSUME IInv, NEW c \in Clients, RunPublishes(c),
         UNCHANGED <<runner, session, ops, plan, found, unrestored>>
  PROVE  IInv'
<1> DEFINE cfg == [config EXCEPT !.maps = client[c].report]
<1>1. config \in Config /\ client[c].report \in Maps
  BY DEF IInv, ControlInv, TypeOK, Client
<1>2. cfg \in Config /\ SettingsOf(cfg) = SettingsOf(config)
  BY <1>1, ConfigFields DEF Config, SettingsOf
<1>3. client[c].pc = "run_publish" /\ Publishes(c, "run", cfg)
  BY DEF RunPublishes, At
<1>4. lost = {} /\ DataInv => file = cfg
  BY <1>3 DEF DataInv, FileInv, Written, Saved, At
<1> HIDE DEF cfg
<1>5. "run" \in Kinds /\ client[c].pc \notin Stale
  BY <1>3 DEF Kinds, Stale, Updating, ApplySteps
<1> QED
  BY <1>2, <1>3, <1>4, <1>5, PublishMappings DEF RunPublishes

LEMMA ApplyPublishesKeeps ==
  ASSUME IInv, NEW c \in Clients, ApplyPublishes(c),
         UNCHANGED <<runner, session, ops, plan, found>>
  PROVE  IInv'
<1>1. client[c].pc = "apply_publish" /\ Publishes(c, "apply", client[c].next)
  BY DEF ApplyPublishes, At
<1>2. client[c].pc \in ApplySteps
  BY <1>1 DEF ApplySteps
<1>3. client[c].next \in Config
  BY <1>2 DEF IInv, ControlInv, HasConfigs, ClientHas
<1>4. lost = {} /\ DataInv => file = client[c].next /\ SettingsOf(client[c].next) = SettingsOf(config)
  BY <1>1, <1>2 DEF DataInv, FileInv, ViewInv, Written, Saved, At
<1>5. "apply" \in Kinds
  BY DEF Kinds
<1> QED
  BY <1>1, <1>3, <1>4, <1>5, PublishMappings DEF ApplyPublishes

LEMMA UpdatePublishesKeeps ==
  ASSUME IInv, NEW c \in Clients, UpdatePublishes(c), UNCHANGED <<session, ops, plan>>
  PROVE  IInv'
<1> DEFINE next == client[c].next
<1>1. TypeOK /\ ControlInv /\ client[c].since \subseteq Kinds
  BY DEF IInv, ControlInv, TypeOK, Client
<1>10. PICK x \in Loaded(next) : Publishes(c, "update", x[1]) /\ found' = x[2]
  BY DEF UpdatePublishes
<1> DEFINE cfg == x[1]
<1>2. client[c].pc = "update_publish" /\ Publishes(c, "update", cfg)
      /\ UNCHANGED <<file, runner, policy, worker, events, unrestored>>
  BY <1>10 DEF UpdatePublishes, At
<1>3. client[c].pc \in Updating /\ client[c].pc \in LockSteps /\ client[c].pc \notin ApplySteps
      /\ Written(client[c]) /\ client[c].pc # "add_publish"
  BY <1>2 DEF Updating, LockSteps, ApplySteps, Written, Saved
<1>4. next \in Config /\ "update" \in Kinds
  BY <1>1, <1>2, <1>3 DEF ControlInv, HasConfigs, ClientHas, Kinds
<1>11. /\ cfg \in Config /\ found' \in BOOLEAN
       /\ cfg.domains = next.domains /\ SettingsOf(cfg) = SettingsOf(next)
       /\ (IF found' THEN [next EXCEPT !.mihomo = cfg.mihomo] ELSE next) = cfg
  BY <1>4, <1>10, LoadedType
<1> HIDE DEF cfg
<1>5. ControlInv' /\ ClientMoves(c, Idle, {}) /\ WorkerHears({})
  BY <1>1, <1>2, <1>3, <1>4, <1>11, PublishControl DEF TypeOK
<1>6. ~Working
  BY <1>1, <1>3, IdleWorker
<1>7. \A e \in Clients \ {c} : client[e].pc \notin QuickSteps
  BY <1>1, <1>3 DEF ControlInv, Exclusion, QuickSteps, LockSteps
<1>8. lost = {} /\ DataInv => Desired' = cfg
  <2>1. lost = {} /\ DataInv => file = next
    BY <1>2, <1>3 DEF DataInv, FileInv, At
  <2>2. config' = cfg /\ file' = file
    BY <1>2 DEF Publishes
  <2> QED
    BY <1>11, <2>1, <2>2 DEF Desired
<1>9. ASSUME lost' = {} PROVE DataInv'
  <2>1. lost = {} /\ Told1' /\ FileInv' /\ ViewInv'
    BY <1>1, <1>2, <1>3, <1>7, <1>8, <1>9, PublishData
  <2>2. RunnerInv /\ PolicyInv
    BY <2>1 DEF IInv, DataInv
  <2>3. WorkerInv'
    BY <1>2, <1>6 DEF WorkerInv, Working, HoldsSlot, Looks, Edited
  <2>4. config' = cfg /\ runner'[session'] = SettingsOf(cfg)
    BY <1>2, <1>11, <2>2 DEF Publishes, RunnerInv, At
  <2>5. \A e \in Clients : ~At(e, "update_publish")'
    <3>1. \A e \in Clients \ {c} : client[e].pc # "update_publish"
      BY <1>1, <1>3 DEF ControlInv, Exclusion, LockSteps
    <3> QED
      BY <1>5, <3>1, IdleType DEF At, ClientMoves, Hears
  <2>6. RunnerInv'
    BY <2>4, <2>5 DEF RunnerInv, SettingsOf
  <2>7. PolicyInv'
    <3>1. policy.reported /\ policy.exists => Mapped(policy.maps) \subseteq next.domains
      BY <1>2, <2>2 DEF PolicyInv, At
    <3>2. policy'.reported => \A d \in Domains \ config'.domains : ~InPolicy(d)'
      BY <1>2, <1>11, <2>4, <3>1 DEF InPolicy, Mapped
    <3> QED
      BY <2>5, <3>2 DEF PolicyInv
  <2> QED
    BY <2>1, <2>3, <2>6, <2>7 DEF DataInv
<1> QED
  BY <1>5, <1>9 DEF IInv

LEMMA QuickActivatesKeeps ==
  ASSUME IInv, NEW c \in Clients, QuickActivates(c), UNCHANGED <<ops, found, unrestored>>
  PROVE  IInv'
<1> DEFINE next == client[c].next
<1>1. TypeOK /\ ControlInv /\ client[c].since \subseteq Kinds
  BY DEF IInv, ControlInv, TypeOK, Client
<1>2. client[c].pc = "quick_activate" /\ Publishes(c, "quick", next)
      /\ session' = client[c].session
      /\ UNCHANGED <<file, runner, policy, worker, plan, events>>
  BY DEF QuickActivates, At
<1>3. client[c].pc \in QuickSteps /\ client[c].pc \in LockSteps /\ client[c].pc \notin Stale
      /\ Written(client[c]) /\ client[c].pc # "add_publish"
  BY <1>2 DEF QuickSteps, LockSteps, ApplySteps, Stale, Updating, Written, Saved
<1>4. next \in Config /\ "quick" \in Kinds
  BY <1>1, <1>3 DEF ControlInv, HasConfigs, ClientHas, Kinds
<1>5. ControlInv' /\ ClientMoves(c, Idle, {}) /\ WorkerHears({})
  BY <1>1, <1>2, <1>3, <1>4, PublishControl DEF TypeOK
<1>6. \A e \in Clients \ {c} : client[e].pc \notin LockSteps
  BY <1>1, <1>3 DEF ControlInv, Exclusion
<1>7. \A e \in Clients \ {c} : client[e].pc \notin QuickSteps /\ client[e].pc # "update_publish"
  BY <1>6 DEF QuickSteps, LockSteps
<1>8. lost = {} /\ DataInv => Desired' = next
  <2>1. lost = {} /\ DataInv => file = next
    BY <1>2, <1>3 DEF DataInv, FileInv, At
  <2>2. config' = next /\ file' = file /\ found' = found
    BY <1>2 DEF Publishes
  <2> QED
    BY <1>4, <2>1, <2>2, ShownAsIs DEF Desired
<1>9. session' = session + 1 /\ runner[session + 1] = SettingsOf(next)
  BY <1>1, <1>2, <1>3 DEF ControlInv, Sessions
<1>10. ASSUME lost' = {} PROVE DataInv'
  <2>1. lost = {} /\ Told1' /\ FileInv' /\ ViewInv'
    BY <1>1, <1>2, <1>3, <1>7, <1>8, <1>10, PublishData
  <2>2. DataInv
    BY <2>1 DEF IInv
  <2>3. next.domains = config.domains /\ config' = next
    BY <1>2, <1>3, <2>2 DEF DataInv, ViewInv, Publishes
  <2>4. runner'[session'].domains = config'.domains /\ runner'[session'].managed = config'.managed
    BY <1>2, <1>9, <2>3 DEF SettingsOf
  <2>5. Looks' => worker'.since # {}
    BY <1>2, <1>3, <2>2 DEF DataInv, Told1, Looks, Removes
  <2>6. WorkerInv'
    <3>1. /\ Working' = Working /\ HoldsSlot' = HoldsSlot /\ Removes' = Removes
          /\ Edited' = Edited /\ Target' = Target
      BY <1>2 DEF Working, HoldsSlot, Removes, Edited, Target
    <3>2. WorkerInv
      BY <2>2 DEF DataInv
    <3> QED
      BY <1>2, <2>3, <2>4, <2>5, <3>1, <3>2 DEF WorkerInv
  <2>7. NoneReloads /\ \A e \in Clients : ~At(e, "update_publish")'
    BY <1>2, <1>5, <1>7, IdleType DEF NoneReloads, At, ClientMoves, Hears
  <2>8. RunnerInv'
    BY <2>4, <2>7 DEF RunnerInv
  <2>9. PolicyInv'
    BY <1>2, <2>2, <2>3, <2>7 DEF DataInv, PolicyInv, InPolicy
  <2> QED
    BY <2>1, <2>6, <2>8, <2>9 DEF DataInv
<1> QED
  BY <1>5, <1>10 DEF IInv

LEMMA AddPublishesKeeps ==
  ASSUME IInv, NEW c \in Clients, AddPublishes(c)
  PROVE  IInv'
<1> DEFINE next == client[c].next
<1>1. TypeOK /\ ControlInv /\ client[c].since \subseteq Kinds
  BY DEF IInv, ControlInv, TypeOK, Client
<1>2. client[c].pc = "add_publish" /\ Publishes(c, "add", next) /\ worker.pc = "idle"
      /\ UNCHANGED <<file, runner, session, policy, ops, plan, events, found, unrestored>>
  BY DEF AddPublishes, At
<1>3. PICK d \in Domains :
        /\ ops[d] = "pending"
        /\ worker' = [NoWorker EXCEPT !.pc = "poll", !.adds = TRUE, !.domain = d,
                                      !.before = client[c].before.domains]
  BY DEF AddPublishes
<1>4. client[c].pc \in LockSteps /\ client[c].pc \notin ApplySteps /\ Written(client[c])
  BY <1>2 DEF LockSteps, ApplySteps, Written, Saved
<1>5. next \in Config /\ client[c].before \in Config /\ client[c].before.domains \in SUBSET Domains
  BY <1>1, <1>2 DEF ControlInv, HasConfigs, ClientHas, Config
<1>6. "poll" \in WorkerSteps
  BY DEF WorkerSteps
<1>7. worker' \in Worker
  BY <1>3, <1>5, <1>6, NoWorkerType, WorkerFields, Zenon
<1>8. /\ worker'.pc = "poll" /\ worker'.adds = TRUE /\ worker'.domain = d
      /\ worker'.before = client[c].before.domains /\ worker'.session = 0 /\ worker'.since = {}
  BY <1>3, NoWorkerType DEF Worker
<1>9. ClientMoves(c, Idle, {}) /\ Idle \in Client /\ Idle.pc = "idle" /\ Idle.since = {}
  BY <1>1, <1>2, IdleType, ClientStep DEF TypeOK, Publishes
<1>10. \A e \in Clients \ {c} : client[e].pc \notin LockSteps
  BY <1>1, <1>4 DEF ControlInv, Exclusion
<1>11. \A e \in Clients : client'[e].pc \notin LockSteps
  BY <1>9, <1>10 DEF ClientMoves, Hears, LockSteps
<1>12. Working' /\ ~Looks' /\ ~HoldsSlot'
  BY <1>8 DEF Working, Looks, HoldsSlot, Removes
<1>13. client[c].since \subseteq {"apply", "restart"}
  BY <1>1, <1>2, <1>4 DEF ControlInv, SinceInv, Stale, Updating
<1>14. lost' \subseteq Kinds \X Kinds /\ lost' \subseteq KnownOverwrites
  <2>1. lost \subseteq Kinds \X Kinds /\ lost \subseteq KnownOverwrites
    BY <1>1 DEF ControlInv, TypeOK, OnlyKnownOverwrites
  <2>2. {"add"} \X client[c].since \subseteq Kinds \X Kinds
        /\ {"add"} \X client[c].since \subseteq KnownOverwrites
    BY <1>1, <1>13 DEF KnownOverwrites, Kinds
  <2>3. lost' = lost \cup ({"add"} \X client[c].since)
    BY <1>2 DEF Publishes
  <2> QED
    BY <2>1, <2>2, <2>3, Zenon
<1>15. TypeOK'
  BY <1>1, <1>2, <1>5, <1>7, <1>9, <1>14 DEF TypeOK, ClientMoves, Publishes
<1>16. HasConfigs'
  <2>1. \A e \in Clients : ClientHas(client'[e])
    <3>1. \A e \in Clients : ClientHas(client[e])
      BY <1>1 DEF ControlInv, HasConfigs
    <3>2. ClientHas(Idle)
      BY <1>9 DEF ClientHas, Updating, QuickSteps, ApplySteps
    <3> QED
      BY <1>9, <3>1, <3>2 DEF ClientMoves, Hears, ClientHas
  <2> QED
    BY <1>1, <1>2, <1>8, <1>12, <2>1 DEF ControlInv, HasConfigs, ClientHas
<1>17. Exclusion' /\ Operations' /\ Sessions' /\ SinceInv'
  <2>1. Exclusion'
    BY <1>8, <1>11, <1>12 DEF Exclusion, At, Updating, LockSteps
  <2>2. Operations'
    BY <1>1, <1>2, <1>3, <1>8, <1>12 DEF ControlInv, Operations, Active
  <2>3. Sessions'
    BY <1>1, <1>2, <1>8, <1>11, BoundsAreNaturals
       DEF Sessions, TypeOK, At, QuickSteps, LockSteps
  <2>4. SinceInv'
    BY <1>1, <1>8, <1>9 DEF ControlInv, SinceInv, ClientMoves, Hears
  <2> QED
    BY <2>1, <2>2, <2>3, <2>4
<1>18. ControlInv'
  BY <1>14, <1>15, <1>16, <1>17 DEF ControlInv, OnlyKnownOverwrites
<1>19. ASSUME lost' = {} PROVE DataInv'
  <2>1. lost = {} /\ DataInv
    BY <1>2, <1>19 DEF IInv, Publishes
  <2>2. /\ file = next /\ client[c].before = config /\ next.managed = config.managed
        /\ next.domains = config.domains \cup {d}
    BY <1>2, <1>3, <1>4, <2>1 DEF DataInv, FileInv, ViewInv, At
  <2>3. \A e \in Clients \ {c} : client[e].pc \notin QuickSteps
    BY <1>10 DEF QuickSteps, LockSteps
  <2>5. config' = next
    BY <1>2 DEF Publishes
  <2>10. Desired' = next
    BY <1>2, <1>5, <2>2, <2>5, ShownAsIs DEF Desired
  <2>4. Told1' /\ FileInv' /\ ViewInv'
    BY <1>1, <1>2, <1>4, <1>8, <1>19, <2>3, <2>10, PublishData
  <2>6. WorkerInv'
    BY <1>8, <1>12, <2>2, <2>5 DEF WorkerInv, Edited
  <2>7. NoneReloads /\ \A e \in Clients : ~At(e, "update_publish")'
    BY <1>2, <1>10, <1>11 DEF NoneReloads, At, LockSteps
  <2>8. RunnerInv'
    BY <1>2, <1>3, <2>1, <2>2, <2>5, <2>7 DEF DataInv, RunnerInv, Active
  <2>9. PolicyInv'
    BY <1>2, <2>1, <2>2, <2>5, <2>7 DEF DataInv, PolicyInv, InPolicy
  <2> QED
    BY <2>4, <2>6, <2>8, <2>9 DEF DataInv
<1> QED
  BY <1>18, <1>19 DEF IInv

-----------------------------------------------------------------------------
(* Steps of the worker, and Remove, which starts it *)

\* Only the worker, its operation, the Runner and the policy change.
LEMMA WorkerLocal ==
  ASSUME IInv, UNCHANGED <<file, config, session, client, plan, found, lost, unrestored>>,
         events' \in 0..MaxEvents, worker' \in Worker, ops' \in [Domains -> OpStates],
         policy' \in Policy, ~policy'.exists => policy'.maps = NoMaps,
         runner' \in [0..MaxSessions -> Settings], runner'[session + 1] = runner[session + 1],
         Looks' => worker'.base \in Config, Working' => worker'.domain \in Domains,
         Operations', worker'.session <= session,
         Working' => Working \/ LockFree, HoldsSlot' => HoldsSlot \/ TaskFree,
         worker.pc # "publish", worker'.pc # "publish",
         worker'.since \subseteq {"apply", "restart", "run", "quick"},
         \A d \in Domains : ops'[d] = "pending" => ops[d] = "pending",
         Looks' => Unpublished \subseteq worker'.since \/ (Looks /\ worker'.since = worker.since),
         lost = {} => WorkerInv' /\ RunnerInv' /\ PolicyInv'
  PROVE  IInv'
<1>1. TypeOK /\ HasConfigs /\ Exclusion /\ Sessions /\ SinceInv /\ OnlyKnownOverwrites
  BY DEF IInv, ControlInv
<1>2. TypeOK'
  BY <1>1 DEF TypeOK
<1>3. HasConfigs'
  BY <1>1 DEF HasConfigs, ClientHas
<1>4. Exclusion'
  <2>1. Working' => \A e \in Clients : client[e].pc \notin Updating \cup {"add_publish"}
    BY <1>1 DEF Exclusion, LockFree, Updating, LockSteps
  <2>2. HoldsSlot' => \A e \in Clients : client[e].pc \notin {"run_execute", "quick_execute"}
    BY <1>1 DEF Exclusion, TaskFree, TaskSteps
  <2> QED
    BY <1>1, <2>1, <2>2 DEF Exclusion, At
<1>5. Sessions' /\ SinceInv' /\ OnlyKnownOverwrites'
  BY <1>1 DEF Sessions, SinceInv, OnlyKnownOverwrites, At
<1>6. ControlInv'
  BY <1>2, <1>3, <1>4, <1>5 DEF ControlInv
<1>7. ASSUME lost' = {} PROVE DataInv'
  <2>1. DataInv /\ lost = {}
    BY <1>7 DEF IInv
  <2>2. Told1'
    <3>1. Unpublished \subseteq {} => \A e \in Clients : ~Written(client[e])
      BY <1>1, UnpublishedKinds DEF Quiescent
    <3>2. \A e \in Clients : Written(client[e]) => (Looks' => worker'.since # {})
      BY <2>1, <3>1 DEF DataInv, Told1
    <3> QED
      BY <2>1, <3>2 DEF DataInv, Told1
  <2>3. FileInv'
    BY <2>1 DEF DataInv, FileInv, Quiescent, InForce, Waits, Desired, At
  <2>4. ViewInv'
    <3>1. \A cfg : (Current(cfg)' <=> Current(cfg)) /\ Hot(cfg)' = Hot(cfg)
      BY DEF Current, Hot
    <3> QED
      BY <2>1, <3>1 DEF DataInv, ViewInv, At
  <2> QED
    BY <2>1, <2>2, <2>3, <2>4 DEF DataInv
<1> QED
  BY <1>6, <1>7 DEF IInv

LEMMA RemoveKeeps ==
  ASSUME IInv, NEW c \in Clients, NEW d \in Domains, Remove(c, d)
  PROVE  IInv'
<1>1. TypeOK /\ ControlInv /\ HasConfigs /\ config \in Config /\ config.domains \in SUBSET Domains
  BY DEF IInv, ControlInv, TypeOK, Config
<1>2. /\ client[c].pc = "idle" /\ LockFree /\ NoOperation /\ Accept /\ worker.pc = "idle"
      /\ ops' = [ops EXCEPT ![d] = "removing"]
      /\ UNCHANGED <<file, config, runner, session, policy, client, plan, found, lost, unrestored>>
  BY DEF Remove, At
<1>3. client[c].pc \notin Saved
  BY <1>2 DEF Saved, ApplySteps
<1>4. NotInMemory \subseteq {"apply", "restart"} /\ NotInMemory \in SUBSET Kinds
      /\ Unpublished \subseteq NotInMemory
  BY <1>1, <1>2, <1>3, LockedUnpublished, UnpublishedKinds
<1>5. "poll" \in WorkerSteps
  BY DEF WorkerSteps
<1>6. worker' = [NoWorker EXCEPT !.pc = "poll", !.domain = d, !.base = config,
                                 !.before = config.domains, !.since = NotInMemory]
  BY DEF Remove
<1>7. worker' \in Worker
  BY <1>1, <1>4, <1>5, <1>6, NoWorkerType, WorkerFields, Zenon
<1>8. /\ worker'.pc = "poll" /\ worker'.domain = d /\ worker'.base = config
      /\ worker'.before = config.domains /\ worker'.since = NotInMemory
      /\ worker'.session = 0 /\ worker'.adds = FALSE
  BY <1>6, NoWorkerType DEF Worker, NoWorker
<1>9. Looks' /\ Working' /\ ~HoldsSlot' /\ ~Edited'
  BY <1>8 DEF Looks, Working, HoldsSlot, Edited, Removes
<1>10. \A e \in Domains : ops'[e] = IF e = d THEN "removing" ELSE ops[e]
  BY <1>1, <1>2 DEF TypeOK
<1>11. \A e \in Domains : ops[e] \notin Active
  BY <1>2 DEF NoOperation
<1>12. Operations'
  BY <1>8, <1>9, <1>10, <1>11 DEF Operations, Active
<1>13. ops' \in [Domains -> OpStates] /\ events' \in 0..MaxEvents
  BY <1>1, <1>2, Accepted DEF TypeOK, OpStates
<1>14. ASSUME lost = {} PROVE WorkerInv' /\ RunnerInv' /\ PolicyInv'
  <2>1. DataInv
    BY <1>14 DEF IInv
  <2>2. WorkerInv'
    BY <1>2, <1>8, <1>9 DEF WorkerInv
  <2>3. RunnerInv'
    BY <1>2, <1>10, <2>1 DEF DataInv, RunnerInv, NoneReloads, At, Active
  <2>4. PolicyInv'
    BY <1>2, <1>10, <2>1 DEF DataInv, PolicyInv, NoneReloads, At, InPolicy
  <2> QED
    BY <2>2, <2>3, <2>4
<1>15. 0 <= session /\ NotInMemory \subseteq {"apply", "restart", "run", "quick"}
  BY <1>1, <1>4, BoundsAreNaturals DEF TypeOK
<1> QED
  BY <1>1, <1>2, <1>4, <1>7, <1>8, <1>9, <1>10, <1>12, <1>13, <1>14, <1>15, WorkerLocal
     DEF TypeOK, HasConfigs

\* What the worker's state is like before a step.
LEMMA AtWork ==
  ASSUME IInv, Working
  PROVE  /\ TypeOK /\ ControlInv /\ HasConfigs /\ worker \in Worker /\ worker.domain \in Domains
         /\ ops[worker.domain] \in Active
         /\ \A d \in Domains : ops[d] \in Active => d = worker.domain
         /\ worker.session \in 0..session /\ session \in 0..MaxSessions
         /\ session + 1 # worker.session
         /\ worker.before \in SUBSET Domains
         /\ Looks => worker.base \in Config /\ worker.base.domains \in SUBSET Domains
                     /\ worker.base.maps \in Maps /\ Target \in SUBSET Domains
         /\ worker.since \subseteq {"apply", "restart", "run", "quick"}
         /\ NoneReloads /\ \A c \in Clients : ~At(c, "add_publish")
<1>1. TypeOK /\ ControlInv /\ HasConfigs /\ Exclusion /\ Operations /\ Sessions /\ SinceInv
  BY DEF IInv, ControlInv
<1>2. worker \in Worker /\ worker.session \in 0..MaxSessions /\ session \in 0..MaxSessions
      /\ worker.before \in SUBSET Domains /\ worker.domain \in Domains
  BY <1>1 DEF TypeOK, Worker, HasConfigs
<1>3. worker.session \in 0..session /\ session + 1 # worker.session
  BY <1>1, <1>2, BoundsAreNaturals DEF Sessions
<1>4. Looks => worker.base \in Config /\ worker.base.domains \in SUBSET Domains
               /\ worker.base.maps \in Maps
  BY <1>1 DEF HasConfigs, Config
<1>5. Looks => Target \in SUBSET Domains
  BY <1>2, <1>4 DEF Target
<1>6. NoneReloads /\ \A c \in Clients : ~At(c, "add_publish")
  BY <1>1 DEF Exclusion, NoneReloads, At, Updating
<1> QED
  BY <1>1, <1>2, <1>3, <1>4, <1>5, <1>6 DEF Operations, SinceInv

\* The operation ends.
LEMMA Concluding ==
  ASSUME IInv, Working, NEW state \in OpStates \ (Active \cup {"pending"}), Concludes(state)
  PROVE  /\ worker' \in Worker /\ worker'.pc = "tail" /\ worker'.since = {} /\ worker'.session = 0
         /\ ~Working' /\ ~HoldsSlot' /\ ~Looks' /\ WorkerInv' /\ Operations'
         /\ ops' \in [Domains -> OpStates]
         /\ \A d \in Domains : ops'[d] = IF d = worker.domain THEN state ELSE ops[d]
         /\ \A d \in Domains : ops'[d] \notin Active
<1>1. "tail" \in WorkerSteps
  BY DEF WorkerSteps
<1>2. worker' = [NoWorker EXCEPT !.pc = "tail"] /\ ops' = [ops EXCEPT ![worker.domain] = state]
  BY DEF Concludes
<1>3. worker' \in Worker /\ worker'.pc = "tail" /\ worker'.since = {} /\ worker'.session = 0
  BY <1>1, <1>2, NoWorkerType, WorkerFields DEF Worker
<1>4. ~Working' /\ ~HoldsSlot' /\ ~Looks' /\ ~Edited'
  BY <1>3 DEF Working, HoldsSlot, Looks, Edited
<1>5. WorkerInv'
  BY <1>3, <1>4 DEF WorkerInv
<1>6. ops' \in [Domains -> OpStates]
      /\ \A d \in Domains : ops'[d] = IF d = worker.domain THEN state ELSE ops[d]
  BY <1>2, AtWork DEF TypeOK
<1>7. \A d \in Domains : ops'[d] \notin Active
  BY <1>6, AtWork
<1> QED
  BY <1>3, <1>4, <1>5, <1>6, <1>7 DEF Operations

LEMMA WorkerTakesKeeps ==
  ASSUME IInv, WorkerTakes, UNCHANGED <<session, plan, events, found, unrestored>>
  PROVE  IInv'
<1> DEFINE base == IF worker.adds THEN config ELSE worker.base
           since == IF worker.adds THEN NotInMemory ELSE worker.since
<1>1. /\ worker.pc = "poll" /\ TaskFree /\ ops' = [ops EXCEPT ![worker.domain] = "verifying"]
      /\ worker' = [worker EXCEPT !.pc = "refresh", !.session = session, !.base = base,
                                  !.since = since]
      /\ UNCHANGED <<file, config, runner, policy, client, lost>>
  BY DEF WorkerTakes, WorkerAt
<1>2. Working /\ worker.pc # "publish"
  BY <1>1 DEF Working
<1>3. /\ TypeOK /\ ControlInv /\ HasConfigs /\ worker \in Worker /\ worker.domain \in Domains
      /\ ops[worker.domain] \in Active
      /\ \A d \in Domains : ops[d] \in Active => d = worker.domain
      /\ session \in 0..MaxSessions
      /\ worker.since \subseteq {"apply", "restart", "run", "quick"}
      /\ Looks => worker.base \in Config
  BY <1>2, AtWork
<1>4. ~worker.adds => Looks
  BY <1>1 DEF Looks, Removes
<1>5. base \in Config
  BY <1>3, <1>4 DEF TypeOK
<1>6. since \subseteq {"apply", "restart", "run", "quick"} /\ since \in SUBSET Kinds
  <2>1. \A e \in Clients : client[e].pc \notin Updating \cup {"add_publish"}
    BY <1>2, <1>3 DEF ControlInv, Exclusion
  <2>2. NotInMemory \subseteq {"apply", "restart", "run", "quick"}
    BY <1>2, <1>3, <2>1, UnpublishedKinds
  <2> QED
    BY <1>3, <2>2 DEF Kinds
<1> HIDE DEF base, since
<1>7. "refresh" \in WorkerSteps
  BY DEF WorkerSteps
<1>8. worker' \in Worker
  BY <1>1, <1>3, <1>5, <1>6, <1>7, WorkerFields, Zenon
<1>9. /\ worker'.pc = "refresh" /\ worker'.session = session /\ worker'.base = base
      /\ worker'.since = since /\ worker'.adds = worker.adds /\ worker'.domain = worker.domain
      /\ worker'.before = worker.before
  BY <1>1, <1>3 DEF Worker
<1>10. Working' /\ HoldsSlot' /\ Looks' /\ ~Edited' /\ Removes' = Removes
  BY <1>9 DEF Working, HoldsSlot, Looks, Edited, Removes
<1>11. /\ ops' \in [Domains -> OpStates]
       /\ \A d \in Domains : ops'[d] = IF d = worker.domain THEN "verifying" ELSE ops[d]
  BY <1>1, <1>3 DEF TypeOK, OpStates
<1>12. Operations'
  BY <1>3, <1>9, <1>10, <1>11 DEF Operations, Active
<1>13. ASSUME lost = {} PROVE WorkerInv' /\ RunnerInv' /\ PolicyInv'
  <2>1. DataInv
    BY <1>13 DEF IInv
  <2>2. WorkerInv
    BY <2>1 DEF DataInv
  <2>3. since = {} /\ ~worker.adds => base.managed = config.managed /\ base.domains = config.domains
    BY <1>1, <1>4, <2>2 DEF WorkerInv, Removes, Edited, base, since
  <2>4. worker.adds => base = config
    BY DEF base
  <2>5. IF worker.adds THEN config.domains = worker.before \cup {worker.domain}
        ELSE worker.before = config.domains
    BY <1>2, <2>2 DEF WorkerInv
  <2>6. WorkerInv'
    BY <1>1, <1>9, <1>10, <2>3, <2>4, <2>5 DEF WorkerInv, Removes
  <2>7. RunnerInv'
    BY <1>1, <1>11, <2>1 DEF DataInv, RunnerInv, NoneReloads, At, Active
  <2>8. PolicyInv'
    BY <1>1, <1>11, <2>1 DEF DataInv, PolicyInv, NoneReloads, At, InPolicy
  <2> QED
    BY <2>6, <2>7, <2>8
<1>14. Looks' => Unpublished \subseteq worker'.since \/ (Looks /\ worker'.since = worker.since)
  BY <1>3, <1>4, <1>9, UnpublishedKinds DEF since
<1>15. worker'.session <= session
  BY <1>3, <1>9, BoundsAreNaturals
<1> QED
  BY <1>1, <1>2, <1>3, <1>5, <1>6, <1>8, <1>9, <1>11, <1>12, <1>13, <1>14, <1>15, WorkerLocal
     DEF TypeOK, HasConfigs

\* What a Runner that was given its domains leaves.
LEMMA SettleType ==
  ASSUME TypeOK, HasConfigs, NEW s \in 0..MaxSessions, NEW D \in SUBSET Domains,
         NEW refreshed, DomainsSettle(s, D, refreshed)
  PROVE  /\ runner' \in [0..MaxSessions -> Settings]
         /\ runner'[s].domains = D /\ runner'[s].managed = runner[s].managed
         /\ \A t \in 0..MaxSessions \ {s} : runner'[t] = runner[t]
         /\ refreshed \in BOOLEAN
         /\ policy' \in Policy /\ (~policy'.exists => policy'.maps = NoMaps)
         /\ \/ policy' = policy
            \/ refreshed /\ policy'.exists /\ Mapped(policy'.maps) = D
<1>1. runner' = [runner EXCEPT ![s] = [runner[s] EXCEPT !.domains = D]] /\ runner[s] \in Settings
  BY DEF DomainsSettle, Settle, TypeOK
<1>2. [runner[s] EXCEPT !.domains = D] \in Settings
  BY <1>1 DEF Settings
<1>3. /\ runner' \in [0..MaxSessions -> Settings]
      /\ runner'[s].domains = D /\ runner'[s].managed = runner[s].managed
      /\ \A t \in 0..MaxSessions \ {s} : runner'[t] = runner[t]
  BY <1>1, <1>2 DEF TypeOK, Settings
<1>4. refreshed \in BOOLEAN
  BY DEF DomainsSettle, TypeOK, Policy
<1>5. CASE refreshed
  BY <1>3, <1>4, <1>5, CommitType DEF DomainsSettle, Commits
<1>6. CASE ~refreshed
  BY <1>3, <1>4, <1>6 DEF DomainsSettle, TypeOK, HasConfigs
<1> QED
  BY <1>4, <1>5, <1>6

\* What one that could not be given them leaves.
LEMMA FailType ==
  ASSUME TypeOK, HasConfigs, NEW s, NEW D \in SUBSET Domains, DomainsFail(s, D)
  PROVE  /\ runner' = runner
         /\ policy' \in Policy /\ (~policy'.exists => policy'.maps = NoMaps)
         /\ policy' = policy \/ ~policy'.reported
<1>1. runner' = runner /\ policy \in Policy /\ (~policy.exists => policy.maps = NoMaps)
  BY DEF DomainsFail, TypeOK, HasConfigs
<1>2. CASE policy.exists
  BY <1>1, <1>2, RefreshFailsType DEF DomainsFail
<1>3. CASE ~policy.exists
  BY <1>1, <1>3 DEF DomainsFail
<1> QED
  BY <1>2, <1>3

LEMMA WorkerRefreshesKeeps ==
  ASSUME IInv, WorkerRefreshes, UNCHANGED <<session, plan, events, found, unrestored>>
  PROVE  IInv'
<1> DEFINE s == worker.session
<1>1. worker.pc = "refresh" /\ UNCHANGED <<file, config, ops, client, lost>>
  BY DEF WorkerRefreshes, WorkerAt
<1>2. Working /\ HoldsSlot /\ Looks /\ ~Edited /\ worker.pc # "publish"
  BY <1>1 DEF Working, HoldsSlot, Looks, Edited
<1>3. PICK refreshed \in BOOLEAN :
        /\ DomainsSettle(s, Target, refreshed)
        /\ worker' = [worker EXCEPT !.pc = "decide", !.refreshed = refreshed,
                                    !.guarded = policy.exists]
  BY DEF WorkerRefreshes
<1>4. /\ TypeOK /\ ControlInv /\ HasConfigs /\ worker \in Worker /\ worker.domain \in Domains
      /\ ops[worker.domain] \in Active
      /\ s \in 0..session /\ session \in 0..MaxSessions /\ session + 1 # s
      /\ worker.before \in SUBSET Domains /\ worker.base \in Config /\ Target \in SUBSET Domains
      /\ worker.since \subseteq {"apply", "restart", "run", "quick"} /\ NoneReloads
  BY <1>2, AtWork
<1>5. s \in 0..MaxSessions
  BY <1>4 DEF Worker
<1>6. /\ runner' \in [0..MaxSessions -> Settings]
      /\ runner'[s].domains = Target /\ runner'[s].managed = runner[s].managed
      /\ \A t \in 0..MaxSessions \ {s} : runner'[t] = runner[t]
      /\ policy' \in Policy /\ (~policy'.exists => policy'.maps = NoMaps)
      /\ \/ policy' = policy
         \/ refreshed /\ policy'.exists /\ Mapped(policy'.maps) = Target
  BY <1>3, <1>4, <1>5, SettleType
<1>7. runner'[session + 1] = runner[session + 1]
  <2>1. CASE session + 1 \in 0..MaxSessions
    BY <1>4, <1>6, <2>1
  <2>2. CASE session + 1 \notin 0..MaxSessions
    <3>1. runner' = [runner EXCEPT ![s].domains = Target]
      BY <1>3 DEF DomainsSettle, Settle
    <3>2. \A x : x \notin 0..MaxSessions => runner'[x] = runner[x]
      BY <1>4, <3>1 DEF TypeOK
    <3> QED
      BY <2>2, <3>2
  <2> QED
    BY <2>1, <2>2
<1>8. "decide" \in WorkerSteps /\ policy.exists \in BOOLEAN
  BY <1>4 DEF WorkerSteps, TypeOK, Policy
<1>9. worker' \in Worker
  BY <1>3, <1>4, <1>8, WorkerFields, Zenon
<1>10. /\ worker'.pc = "decide" /\ worker'.session = s /\ worker'.base = worker.base
       /\ worker'.since = worker.since /\ worker'.adds = worker.adds
       /\ worker'.domain = worker.domain /\ worker'.before = worker.before
       /\ worker'.refreshed = refreshed /\ worker'.guarded = policy.exists
  BY <1>3, <1>4 DEF Worker
<1>11. Working' /\ HoldsSlot' /\ Looks' /\ ~Edited' /\ Removes' = Removes /\ Target' = Target
  BY <1>10 DEF Working, HoldsSlot, Looks, Edited, Removes, Target
<1>12. Operations'
  BY <1>1, <1>2, <1>4, <1>10, <1>11 DEF ControlInv, Operations
<1>13. ASSUME lost = {} PROVE WorkerInv' /\ RunnerInv' /\ PolicyInv'
  <2>1. WorkerInv /\ RunnerInv /\ PolicyInv
    BY <1>13 DEF IInv, DataInv
  <2>2. refreshed => policy.exists
    BY <1>3 DEF DomainsSettle
  <2>3. ~policy.exists => ~policy'.exists
    BY <1>6, <2>2
  <2>4. IF worker.adds THEN config.domains = worker.before \cup {worker.domain}
        ELSE worker.before = config.domains
    BY <1>2, <2>1 DEF WorkerInv
  <2>5. worker.adds => worker.base.domains = config.domains
    BY <1>2, <2>1 DEF WorkerInv
  <2>6. session # s => runner'[session] = runner[session] /\ runner[session].domains = config.domains
    BY <1>2, <1>4, <1>6, <2>1 DEF WorkerInv
  <2>7. worker.since = {} =>
          /\ worker.base.managed = config.managed
          /\ Removes => worker.base.domains = config.domains
          /\ session = s
    BY <1>1, <1>2, <2>1 DEF WorkerInv
  <2>8. WorkerInv'
    BY <1>1, <1>6, <1>10, <1>11, <2>3, <2>4, <2>5, <2>6, <2>7 DEF WorkerInv
  <2>9. Target \subseteq config.domains /\ \A d \in config.domains \ Target : d = worker.domain
    BY <2>4, <2>5 DEF Target
  <2>10. runner'[session].managed = config.managed
    BY <1>4, <1>6, <2>1, <2>6 DEF RunnerInv
  <2>11. RunnerInv'
    <3>1. ASSUME NEW d \in Domains, (d \in config.domains) # (d \in runner'[session].domains)
          PROVE  ops[d] \in Active \cup {"failed"}
      BY <1>4, <1>6, <2>6, <2>9, <3>1
    <3> QED
      BY <1>1, <1>4, <2>10, <3>1 DEF RunnerInv, NoneReloads, At
  <2>12. NoneReloads'
    BY <1>1, <1>4 DEF NoneReloads, At
  <2>13. PolicyInv'
    <3>1. CASE policy' = policy
      BY <1>1, <1>4, <2>1, <2>12, <3>1 DEF PolicyInv, NoneReloads, InPolicy
    <3>2. CASE Mapped(policy'.maps) = Target
      BY <1>1, <1>4, <1>6, <2>9, <2>12, <3>2, PolicyCommitted
    <3> QED
      BY <1>6, <3>1, <3>2
  <2> QED
    BY <2>8, <2>11, <2>13
<1>14. worker'.session <= session /\ events' \in 0..MaxEvents /\ ops' \in [Domains -> OpStates]
  BY <1>1, <1>4, <1>10 DEF TypeOK
<1> QED
  BY <1>1, <1>2, <1>4, <1>6, <1>7, <1>9, <1>10, <1>12, <1>13, <1>14, WorkerLocal

LEMMA WorkerRefreshFailsKeeps ==
  ASSUME IInv, WorkerRefreshFails, UNCHANGED <<session, plan, events, found, unrestored>>
  PROVE  IInv'
<1>1. worker.pc = "refresh" /\ DomainsFail(worker.session, Target) /\ Concludes("failed")
      /\ UNCHANGED <<file, config, client, lost>>
  BY DEF WorkerRefreshFails, WorkerAt
<1>2. Working /\ Looks /\ worker.pc # "publish"
  BY <1>1 DEF Working, Looks
<1>3. /\ TypeOK /\ HasConfigs /\ Target \in SUBSET Domains /\ NoneReloads
      /\ session \in 0..MaxSessions
  BY <1>2, AtWork
<1>4. "failed" \in OpStates \ (Active \cup {"pending"})
  BY DEF OpStates, Active
<1>5. /\ worker' \in Worker /\ worker'.pc = "tail" /\ worker'.since = {} /\ worker'.session = 0
      /\ ~Working' /\ ~HoldsSlot' /\ ~Looks' /\ WorkerInv' /\ Operations'
      /\ ops' \in [Domains -> OpStates]
      /\ \A d \in Domains : ops'[d] = IF d = worker.domain THEN "failed" ELSE ops[d]
  BY <1>1, <1>2, <1>4, Concluding
<1>6. /\ runner' = runner
      /\ policy' \in Policy /\ (~policy'.exists => policy'.maps = NoMaps)
      /\ policy' = policy \/ ~policy'.reported
  BY <1>1, <1>3, FailType
<1>7. ASSUME lost = {} PROVE WorkerInv' /\ RunnerInv' /\ PolicyInv'
  <2>1. DataInv
    BY <1>7 DEF IInv
  <2>2. NoneReloads'
    BY <1>1, <1>3 DEF NoneReloads, At
  <2>3. RunnerInv'
    BY <1>1, <1>3, <1>5, <1>6, <2>1, <2>2 DEF DataInv, RunnerInv, NoneReloads
  <2>4. PolicyInv'
    BY <1>1, <1>3, <1>5, <1>6, <2>1, <2>2 DEF DataInv, PolicyInv, NoneReloads, InPolicy
  <2> QED
    BY <1>5, <2>3, <2>4
<1>8. 0 <= session /\ events' \in 0..MaxEvents
  BY <1>3, BoundsAreNaturals DEF TypeOK
<1> QED
  BY <1>1, <1>2, <1>3, <1>5, <1>6, <1>7, <1>8, WorkerLocal DEF TypeOK

LEMMA WorkerDefersKeeps ==
  ASSUME IInv, WorkerDefers, UNCHANGED <<session, plan, events, found, unrestored>>
  PROVE  IInv'
<1>1. worker.pc = "decide" /\ worker.adds /\ Concludes("deferred")
      /\ UNCHANGED <<file, config, runner, policy, client, lost>>
  BY DEF WorkerDefers, WorkerAt
<1>2. Working /\ HoldsSlot /\ worker.pc # "publish"
  BY <1>1 DEF Working, HoldsSlot
<1>3. TypeOK /\ HasConfigs /\ NoneReloads /\ session \in 0..MaxSessions
  BY <1>2, AtWork
<1>4. "deferred" \in OpStates \ (Active \cup {"pending"})
  BY DEF OpStates, Active
<1>5. /\ worker' \in Worker /\ worker'.pc = "tail" /\ worker'.since = {} /\ worker'.session = 0
      /\ ~Working' /\ ~HoldsSlot' /\ ~Looks' /\ WorkerInv' /\ Operations'
      /\ ops' \in [Domains -> OpStates]
      /\ \A d \in Domains : ops'[d] = IF d = worker.domain THEN "deferred" ELSE ops[d]
  BY <1>1, <1>2, <1>4, Concluding
<1>6. ASSUME lost = {} PROVE WorkerInv' /\ RunnerInv' /\ PolicyInv'
  <2>1. WorkerInv /\ RunnerInv /\ PolicyInv
    BY <1>6 DEF IInv, DataInv
  <2>2. runner[session].domains = config.domains
    <3>1. CASE session = worker.session
      BY <1>1, <1>2, <2>1, <3>1 DEF WorkerInv, Target
    <3>2. CASE session # worker.session
      BY <1>2, <2>1, <3>2 DEF WorkerInv
    <3> QED
      BY <3>1, <3>2
  <2>3. NoneReloads'
    BY <1>1, <1>3 DEF NoneReloads, At
  <2>4. RunnerInv'
    BY <1>1, <1>3, <2>1, <2>2, <2>3 DEF RunnerInv, NoneReloads
  <2>5. PolicyInv'
    BY <1>1, <1>3, <1>5, <2>1, <2>3 DEF PolicyInv, NoneReloads, InPolicy
  <2> QED
    BY <1>5, <2>4, <2>5
<1>7. 0 <= session /\ events' \in 0..MaxEvents
  BY <1>3, BoundsAreNaturals DEF TypeOK
<1> QED
  BY <1>1, <1>2, <1>3, <1>5, <1>6, <1>7, WorkerLocal DEF TypeOK, HasConfigs

\* Steps that decide on the next one.
LEMMA WorkerDecides ==
  ASSUME IInv, NEW new \in Worker, worker' = new, HoldsSlot, worker.pc # "publish",
         new.pc \in {"save", "rollback"},
         new.pc = "save" => Looks /\ new.base \in Config,
         /\ new.adds = worker.adds /\ new.domain = worker.domain /\ new.before = worker.before
         /\ new.session = worker.session /\ new.since = worker.since,
         UNCHANGED <<file, config, runner, session, policy, ops, client, plan, events, found,
                     lost, unrestored>>,
         lost = {} => WorkerInv'
  PROVE  IInv'
<1>1. Working
  BY DEF Working, HoldsSlot
<1>2. /\ TypeOK /\ ControlInv /\ HasConfigs /\ worker.session \in 0..session
      /\ worker.domain \in Domains /\ worker.since \subseteq {"apply", "restart", "run", "quick"}
  BY <1>1, AtWork
<1>3. Working' /\ (Looks' => new.pc = "save")
  BY DEF Working, Looks
<1>4. Operations'
  BY <1>1, <1>2, <1>3 DEF ControlInv, Operations, At
<1>5. lost = {} => RunnerInv' /\ PolicyInv'
  BY DEF IInv, DataInv, RunnerInv, PolicyInv, NoneReloads, InPolicy, At
<1>6. worker'.session <= session /\ events' \in 0..MaxEvents
  BY <1>2 DEF TypeOK
<1> QED
  BY <1>1, <1>2, <1>3, <1>4, <1>5, <1>6, WorkerLocal DEF TypeOK, HasConfigs

\* The worker gives up; its Runner still has the new domains.
LEMMA RollbackFollows ==
  ASSUME IInv, HoldsSlot, worker.pc # "publish", WorkerMoves("rollback"),
         UNCHANGED <<session, plan, events, found, unrestored>>
  PROVE  IInv'
<1> DEFINE new == [worker EXCEPT !.pc = "rollback"]
<1>1. worker \in Worker /\ "rollback" \in WorkerSteps
  BY DEF IInv, ControlInv, TypeOK, WorkerSteps
<1>2. new \in Worker /\ worker' = new
  BY <1>1, WorkerFields DEF WorkerMoves
<1>3. /\ new.pc = "rollback" /\ new.base = worker.base
      /\ new.adds = worker.adds /\ new.domain = worker.domain /\ new.before = worker.before
      /\ new.session = worker.session /\ new.since = worker.since
  BY <1>1 DEF Worker
<1> HIDE DEF new
<1>4. ASSUME lost = {} PROVE WorkerInv'
  <2>1. WorkerInv /\ Working
    BY <1>4 DEF IInv, DataInv, Working, HoldsSlot
  <2>2. ~Looks' /\ ~Edited'
    BY <1>2, <1>3 DEF Looks, Edited
  <2> QED
    BY <1>2, <1>3, <2>1, <2>2 DEF WorkerInv, WorkerMoves
<1> QED
  BY <1>2, <1>3, <1>4, WorkerDecides DEF WorkerMoves

LEMMA WorkerDoubtsKeeps ==
  ASSUME IInv, WorkerDoubts, UNCHANGED <<session, plan, events, found, unrestored>>
  PROVE  IInv'
  BY RollbackFollows DEF WorkerDoubts, WorkerAt, HoldsSlot

LEMMA WorkerKeepsDomainKeeps ==
  ASSUME IInv, WorkerKeepsDomain, UNCHANGED <<session, plan, events, found, unrestored>>
  PROVE  IInv'
  BY RollbackFollows DEF WorkerKeepsDomain, WorkerAt, HoldsSlot

LEMMA WorkerSaveFailsKeeps ==
  ASSUME IInv, WorkerSaveFails, UNCHANGED <<session, plan, events, found, unrestored>>
  PROVE  IInv'
  BY RollbackFollows DEF WorkerSaveFails, WorkerAt, HoldsSlot

LEMMA WorkerVerifiesKeeps ==
  ASSUME IInv, WorkerVerifies, UNCHANGED <<session, plan, events, found, unrestored>>
  PROVE  IInv'
<1> DEFINE maps == [worker.base.maps EXCEPT ![worker.domain] = policy.maps[worker.domain]]
           base == [worker.base EXCEPT !.maps = maps]
           new == [worker EXCEPT !.pc = "save", !.base = base]
<1>1. worker.pc = "decide" /\ worker.adds
      /\ UNCHANGED <<file, config, runner, policy, ops, client, lost>>
  BY DEF WorkerVerifies, WorkerAt
<1>2. Working /\ HoldsSlot /\ Looks
  BY <1>1 DEF Working, HoldsSlot, Looks
<1>3. worker \in Worker /\ worker.base \in Config /\ worker.base.maps \in Maps
      /\ worker.domain \in Domains /\ policy.maps \in Maps
  BY <1>2, AtWork DEF TypeOK, Policy
<1>4. maps \in Maps
  BY <1>3 DEF Maps
<1>5. worker' = new
  BY <1>3 DEF WorkerVerifies, Worker, Config
<1> HIDE DEF maps
<1>6. base \in Config /\ base.managed = worker.base.managed /\ base.domains = worker.base.domains
  BY <1>3, <1>4, ConfigFields DEF Config
<1> HIDE DEF base
<1>7. "save" \in WorkerSteps
  BY DEF WorkerSteps
<1>8. new \in Worker
  BY <1>3, <1>6, <1>7, WorkerFields, Zenon
<1>9. /\ new.pc = "save" /\ new.base = base
      /\ new.adds = worker.adds /\ new.domain = worker.domain /\ new.before = worker.before
      /\ new.session = worker.session /\ new.since = worker.since
  BY <1>3 DEF Worker
<1> HIDE DEF new
<1>10. ASSUME lost = {} PROVE WorkerInv'
  <2>1. WorkerInv
    BY <1>10 DEF IInv, DataInv
  <2>2. Target' = Target /\ ~Removes'
    BY <1>1, <1>5, <1>6, <1>9 DEF Target, Removes
  <2> QED
    BY <1>1, <1>2, <1>5, <1>6, <1>9, <2>1, <2>2 DEF WorkerInv
<1> QED
  BY <1>1, <1>2, <1>5, <1>6, <1>8, <1>9, <1>10, WorkerDecides

LEMMA WorkerClearsKeeps ==
  ASSUME IInv, WorkerClears, UNCHANGED <<session, plan, events, found, unrestored>>
  PROVE  IInv'
<1> DEFINE maps == Pruned(worker.base.maps, Target)
           base == [worker.base EXCEPT !.domains = Target, !.maps = maps]
           new == [worker EXCEPT !.pc = "save", !.base = base]
<1>1. worker.pc = "decide" /\ Removes /\ (worker.guarded => ~InPolicy(worker.domain))
      /\ UNCHANGED <<file, config, runner, policy, ops, client, lost>>
  BY DEF WorkerClears, WorkerAt
<1>2. Working /\ HoldsSlot /\ Looks /\ ~Edited
  BY <1>1 DEF Working, HoldsSlot, Looks, Edited
<1>3. worker \in Worker /\ worker.base \in Config /\ worker.base.maps \in Maps
      /\ Target \in SUBSET Domains
  BY <1>2, AtWork
<1>4. maps \in Maps
  BY <1>3, PrunedType
<1>5. worker' = new
  BY <1>3 DEF WorkerClears, Worker, Config
<1> HIDE DEF maps
<1>6. base \in Config
  BY <1>3, <1>4, ConfigFields, Zenon
<1>7. base.managed = worker.base.managed /\ base.domains = Target
  BY <1>3 DEF Config
<1> HIDE DEF base
<1>8. "save" \in WorkerSteps
  BY DEF WorkerSteps
<1>9. new \in Worker
  BY <1>3, <1>6, <1>8, WorkerFields, Zenon
<1>10. /\ new.pc = "save" /\ new.base = base
       /\ new.adds = worker.adds /\ new.domain = worker.domain /\ new.before = worker.before
       /\ new.session = worker.session /\ new.since = worker.since
  BY <1>3 DEF Worker
<1> HIDE DEF new
<1>11. ASSUME lost = {} PROVE WorkerInv'
  <2>1. WorkerInv
    BY <1>11 DEF IInv, DataInv
  <2>2. Target' = Target /\ Removes'
    BY <1>1, <1>5, <1>10 DEF Target, Removes
  <2>3. worker.since = {} => ~InPolicy(worker.domain)
    BY <1>1, <1>2, <2>1 DEF WorkerInv, InPolicy
  <2>4. InPolicy(worker.domain)' => InPolicy(worker.domain)
    BY <1>1, <1>5, <1>10 DEF InPolicy
  <2>5. Working' /\ HoldsSlot' /\ Looks' /\ Edited' /\ ~worker'.adds /\ ~worker.adds
    BY <1>1, <1>5, <1>10 DEF Working, HoldsSlot, Looks, Edited, Removes
  <2>6. /\ worker'.pc = "save" /\ worker'.base = base /\ worker'.domain = worker.domain
        /\ worker'.before = worker.before /\ worker'.session = worker.session
        /\ worker'.since = worker.since /\ config' = config /\ session' = session
        /\ runner' = runner
    BY <1>1, <1>5, <1>10
  <2>7. worker.since = {} => base.managed = config.managed /\ session = worker.session
    BY <1>1, <1>2, <1>7, <2>1 DEF WorkerInv
  <2>8. worker'.before = config'.domains
    BY <1>2, <2>1, <2>5, <2>6 DEF WorkerInv
  <2>9. runner'[worker'.session].domains = Target'
    BY <1>1, <2>1, <2>2, <2>6 DEF WorkerInv
  <2>10. session' # worker'.session => runner'[session'].domains = config'.domains
    BY <1>2, <2>1, <2>6 DEF WorkerInv
  <2>11. worker'.base.domains = Target'
    BY <1>7, <2>2, <2>6
  <2> QED
    BY <2>2, <2>3, <2>4, <2>5, <2>6, <2>7, <2>8, <2>9, <2>10, <2>11 DEF WorkerInv
<1> QED
  BY <1>1, <1>2, <1>5, <1>6, <1>9, <1>10, <1>11, WorkerDecides

LEMMA WorkerRollsBackKeeps ==
  ASSUME IInv, WorkerRollsBack, UNCHANGED <<session, plan, events, found, unrestored>>
  PROVE  IInv'
<1> DEFINE s == worker.session
           D == worker.before
<1>1. worker.pc = "rollback" /\ Concludes("failed") /\ UNCHANGED <<file, config, client, lost>>
  BY DEF WorkerRollsBack, WorkerAt
<1>2. Working /\ HoldsSlot /\ worker.pc # "publish"
  BY <1>1 DEF Working, HoldsSlot
<1>3. /\ TypeOK /\ HasConfigs /\ worker \in Worker /\ worker.domain \in Domains
      /\ s \in 0..session /\ session \in 0..MaxSessions /\ session + 1 # s
      /\ D \in SUBSET Domains /\ NoneReloads
  BY <1>2, AtWork
<1>4. "failed" \in OpStates \ (Active \cup {"pending"})
  BY DEF OpStates, Active
<1>5. /\ worker' \in Worker /\ worker'.pc = "tail" /\ worker'.since = {} /\ worker'.session = 0
      /\ ~Working' /\ ~HoldsSlot' /\ ~Looks' /\ WorkerInv' /\ Operations'
      /\ ops' \in [Domains -> OpStates]
      /\ \A d \in Domains : ops'[d] = IF d = worker.domain THEN "failed" ELSE ops[d]
  BY <1>1, <1>2, <1>4, Concluding
<1>6. s \in 0..MaxSessions
  BY <1>3 DEF Worker
<1>7. 0 <= session /\ events' \in 0..MaxEvents
  BY <1>3, BoundsAreNaturals DEF TypeOK
<1>8. NoneReloads'
  BY <1>1, <1>3 DEF NoneReloads, At
<1>9. ASSUME lost = {}
      PROVE  /\ RunnerInv /\ PolicyInv
             /\ D \subseteq config.domains /\ \A d \in config.domains \ D : d = worker.domain
             /\ session # s => runner[session].domains = config.domains
  <2>1. WorkerInv /\ RunnerInv /\ PolicyInv
    BY <1>9 DEF IInv, DataInv
  <2> QED
    BY <1>2, <2>1 DEF WorkerInv
<1>10. CASE DomainsFail(s, D)
  <2>1. /\ runner' = runner
        /\ policy' \in Policy /\ (~policy'.exists => policy'.maps = NoMaps)
        /\ policy' = policy \/ ~policy'.reported
    BY <1>3, <1>10, FailType
  <2>2. lost = {} => RunnerInv'
    BY <1>1, <1>3, <1>5, <1>8, <1>9, <2>1 DEF RunnerInv, NoneReloads
  <2>3. lost = {} => PolicyInv'
    BY <1>1, <1>3, <1>5, <1>8, <1>9, <2>1 DEF PolicyInv, NoneReloads, InPolicy
  <2> QED
    BY <1>1, <1>2, <1>3, <1>5, <1>7, <2>1, <2>2, <2>3, WorkerLocal DEF TypeOK
<1>11. CASE \E refreshed \in BOOLEAN : DomainsSettle(s, D, refreshed)
  <2>1. PICK refreshed \in BOOLEAN : DomainsSettle(s, D, refreshed)
    BY <1>11
  <2>2. /\ runner' \in [0..MaxSessions -> Settings]
        /\ runner'[s].domains = D /\ runner'[s].managed = runner[s].managed
        /\ \A t \in 0..MaxSessions \ {s} : runner'[t] = runner[t]
        /\ policy' \in Policy /\ (~policy'.exists => policy'.maps = NoMaps)
        /\ \/ policy' = policy
           \/ refreshed /\ policy'.exists /\ Mapped(policy'.maps) = D
    BY <1>3, <1>6, <2>1, SettleType
  <2>3. runner'[session + 1] = runner[session + 1]
    <3>1. runner' = [runner EXCEPT ![s].domains = D]
      BY <2>1 DEF DomainsSettle, Settle
    <3>2. \A x : x # s => runner'[x] = runner[x]
      BY <1>3, <3>1 DEF TypeOK
    <3> QED
      BY <1>3, <3>2
  <2>4. ASSUME lost = {} PROVE RunnerInv' /\ PolicyInv'
    <3>1. runner'[session].managed = config.managed
      BY <1>3, <1>9, <2>2, <2>4 DEF RunnerInv
    <3>2. \A d \in Domains : (d \in config.domains) # (d \in runner'[session].domains) =>
            ops'[d] = "failed"
      BY <1>3, <1>5, <1>9, <2>2, <2>4
    <3>3. RunnerInv'
      BY <1>1, <1>8, <3>1, <3>2 DEF RunnerInv, NoneReloads
    <3>4. CASE policy' = policy
      BY <1>1, <1>3, <1>5, <1>8, <1>9, <2>4, <3>3, <3>4 DEF PolicyInv, NoneReloads, InPolicy
    <3>5. CASE Mapped(policy'.maps) = D
      BY <1>1, <1>3, <1>8, <1>9, <2>2, <2>4, <3>3, <3>5, PolicyCommitted
    <3> QED
      BY <2>2, <3>4, <3>5
  <2> QED
    BY <1>1, <1>2, <1>3, <1>5, <1>7, <2>2, <2>3, <2>4, WorkerLocal
<1> QED
  BY <1>10, <1>11 DEF WorkerRollsBack

LEMMA WorkerSavesKeeps ==
  ASSUME IInv, WorkerSaves, UNCHANGED <<session, plan, events, found, unrestored>>
  PROVE  IInv'
<1> DEFINE k == WorkerKind
           new == [worker EXCEPT !.pc = "publish"]
<1>1. /\ worker.pc = "save" /\ LockFree /\ file' = worker.base
      /\ lost' = lost \cup ({k} \X worker.since)
      /\ client' = [c \in Clients |-> Told(client[c], k)]
      /\ worker' = new
      /\ UNCHANGED <<config, runner, policy, ops>>
  BY DEF WorkerSaves, WorkerAt
<1>2. Working /\ HoldsSlot /\ Looks /\ Edited
  BY <1>1 DEF Working, HoldsSlot, Looks, Edited
<1>3. /\ TypeOK /\ ControlInv /\ HasConfigs /\ worker \in Worker /\ worker.domain \in Domains
      /\ worker.base \in Config
      /\ worker.since \subseteq {"apply", "restart", "run", "quick"}
      /\ NoneReloads /\ \A c \in Clients : ~At(c, "add_publish")
  BY <1>2, AtWork
<1>4. k \in Kinds /\ k \in {"verify", "remove"}
  BY DEF WorkerKind, Kinds
<1> HIDE DEF k
<1>5. "publish" \in WorkerSteps
  BY DEF WorkerSteps
<1>6. new \in Worker
  BY <1>3, <1>5, WorkerFields
<1>7. /\ new.pc = "publish" /\ new.base = worker.base /\ new.guarded = worker.guarded
      /\ new.adds = worker.adds /\ new.domain = worker.domain /\ new.before = worker.before
      /\ new.session = worker.session /\ new.since = worker.since
  BY <1>3 DEF Worker
<1> HIDE DEF new
<1>8. /\ client' \in [Clients -> Client]
      /\ \A c \in Clients : Hears(client'[c], client[c], {k})
  <2>1. \A c \in Clients : client[c] \in Client
    BY <1>3 DEF TypeOK
  <2> QED
    BY <1>1, <1>4, <2>1, ToldClient
<1>9. \A c \in Clients : client'[c].pc = client[c].pc /\ client[c].pc \notin LockSteps
  BY <1>1, <1>8 DEF Hears, LockFree
<1>10. Working' /\ HoldsSlot' /\ Looks' /\ Edited'
  BY <1>1, <1>7 DEF Working, HoldsSlot, Looks, Edited
<1>11. worker.since \in SUBSET Kinds
  BY <1>3 DEF Worker
<1>12. lost' \subseteq Kinds \X Kinds /\ lost' \subseteq KnownOverwrites
  <2>1. lost \subseteq Kinds \X Kinds /\ lost \subseteq KnownOverwrites
    BY <1>3 DEF ControlInv, TypeOK, OnlyKnownOverwrites
  <2>2. {k} \X worker.since \subseteq Kinds \X Kinds
        /\ {k} \X worker.since \subseteq KnownOverwrites
    BY <1>3, <1>4, <1>11 DEF KnownOverwrites, Kinds
  <2> QED
    BY <1>1, <2>1, <2>2, Zenon
<1>13. TypeOK'
  BY <1>1, <1>3, <1>6, <1>8, <1>12 DEF TypeOK
<1>14. HasConfigs'
  BY <1>1, <1>3, <1>7, <1>8 DEF HasConfigs, ClientHas, Hears, Looks
<1>15. Exclusion'
  <2>1. \A c \in Clients : /\ client'[c].pc \notin LockSteps
                           /\ client'[c].pc \notin Updating \cup {"add_publish"}
                           /\ client'[c].pc \notin {"run_execute", "quick_execute"}
                           /\ client'[c].pc # "update_publish"
    BY <1>9 DEF Updating, LockSteps
  <2> QED
    BY <2>1 DEF Exclusion, At
<1>16. Operations'
  BY <1>1, <1>2, <1>3, <1>7, <1>10 DEF ControlInv, Operations
<1>17. Sessions'
  BY <1>1, <1>3, <1>7, <1>9 DEF ControlInv, Sessions, At, QuickSteps, LockSteps
<1>18. SinceInv'
  <2>1. \A c \in Clients : client[c].pc \in Viewing => client[c].pc \in Stale
    BY <1>3, <1>9 DEF Viewing, LockSteps, ApplySteps, Stale, TypeOK, Client, ClientSteps
  <2>2. \A c \in Clients : /\ client'[c].pc \notin Stale => client'[c].since \subseteq {"apply", "restart"}
                           /\ client'[c].pc \notin Viewing => client'[c].since = {}
    BY <1>3, <1>8, <2>1 DEF ControlInv, SinceInv, Hears
  <2> QED
    BY <1>1, <1>3, <1>7, <2>2 DEF SinceInv
<1>19. ControlInv'
  BY <1>12, <1>13, <1>14, <1>15, <1>16, <1>17, <1>18 DEF ControlInv, OnlyKnownOverwrites
<1>20. ASSUME lost' = {} PROVE DataInv'
  <2>1. lost = {} /\ worker.since = {}
    <3>1. lost = {} /\ {k} \X worker.since = {}
      BY <1>1, <1>20, Zenon
    <3>2. \A x \in worker.since : <<k, x>> \in {k} \X worker.since
      OBVIOUS
    <3> QED
      BY <3>1, <3>2
  <2>2. DataInv
    BY <2>1 DEF IInv
  <2>3. \A c \in Clients : ~Written(client[c]) /\ ~Written(client'[c])
    BY <1>2, <1>9, <2>1, <2>2 DEF DataInv, Told1, Written
  <2>4. Told1'
    BY <1>1, <1>7, <1>8, <2>1, <2>3 DEF Told1, Hears
  <2>5. FileInv'
    BY <1>1, <1>7, <2>3 DEF FileInv, Quiescent
  <2>6. ViewInv'
    <3>1. \A c \in Clients :
            /\ client'[c].pc \notin {"update_save", "update_reload", "update_restore"}
            /\ client'[c].pc \notin ApplySteps \cup {"add_publish"}
            /\ client'[c].pc \notin QuickSteps
      BY <1>9, <2>3 DEF LockSteps, QuickSteps, Written, Saved
    <3> QED
      BY <3>1 DEF ViewInv, At
  <2>7. WorkerInv'
    <3>1. WorkerInv /\ Target' = Target /\ Removes' = Removes
      BY <1>1, <1>7, <2>2 DEF DataInv, Target, Removes
    <3>2. InPolicy(worker.domain)' = InPolicy(worker.domain)
      BY <1>1, <1>7 DEF InPolicy
    <3> QED
      BY <1>1, <1>2, <1>7, <1>10, <3>1, <3>2 DEF WorkerInv
  <2>8. NoneReloads' /\ \A c \in Clients : ~At(c, "update_publish")'
    BY <1>9 DEF NoneReloads, At, LockSteps
  <2>9. RunnerInv' /\ PolicyInv'
    BY <1>1, <1>3, <2>2, <2>8 DEF DataInv, RunnerInv, PolicyInv, InPolicy
  <2> QED
    BY <2>4, <2>5, <2>6, <2>7, <2>9 DEF DataInv
<1> QED
  BY <1>19, <1>20 DEF IInv

LEMMA WorkerPublishesKeeps ==
  ASSUME IInv, WorkerPublishes, UNCHANGED <<session, plan, events, found, unrestored>>
  PROVE  IInv'
<1> DEFINE k == WorkerKind
           state == IF worker.adds THEN "verified" ELSE "removed"
<1>1. /\ worker.pc = "publish" /\ config' = worker.base
      /\ lost' = lost \cup ({k} \X worker.since)
      /\ Concludes(state)
      /\ UNCHANGED <<file, runner, policy, client>>
  BY DEF WorkerPublishes, WorkerAt
<1>2. Working /\ HoldsSlot /\ Looks /\ Edited
  BY <1>1 DEF Working, HoldsSlot, Looks, Edited
<1>3. /\ TypeOK /\ ControlInv /\ HasConfigs /\ worker \in Worker /\ worker.domain \in Domains
      /\ worker.base \in Config /\ session \in 0..MaxSessions
      /\ worker.since \subseteq {"apply", "restart", "run", "quick"}
      /\ NoneReloads /\ \A c \in Clients : ~At(c, "add_publish")
  BY <1>2, AtWork
<1>4. k \in Kinds /\ k \in {"verify", "remove"}
  BY DEF WorkerKind, Kinds
<1> HIDE DEF k
<1>5. state \in OpStates \ (Active \cup {"pending"})
  BY DEF OpStates, Active
<1> HIDE DEF state
<1>6. /\ worker' \in Worker /\ worker'.pc = "tail" /\ worker'.since = {} /\ worker'.session = 0
      /\ ~Working' /\ ~HoldsSlot' /\ ~Looks' /\ WorkerInv' /\ Operations'
      /\ ops' \in [Domains -> OpStates]
      /\ \A d \in Domains : ops'[d] = IF d = worker.domain THEN state ELSE ops[d]
  BY <1>1, <1>2, <1>5, Concluding
<1>7. worker.since \in SUBSET Kinds
  BY <1>3 DEF Worker
<1>8. lost' \subseteq Kinds \X Kinds /\ lost' \subseteq KnownOverwrites
  <2>1. lost \subseteq Kinds \X Kinds /\ lost \subseteq KnownOverwrites
    BY <1>3 DEF ControlInv, TypeOK, OnlyKnownOverwrites
  <2>2. {k} \X worker.since \subseteq Kinds \X Kinds
        /\ {k} \X worker.since \subseteq KnownOverwrites
    BY <1>3, <1>4, <1>7 DEF KnownOverwrites, Kinds
  <2> QED
    BY <1>1, <2>1, <2>2, Zenon
<1>9. TypeOK'
  BY <1>1, <1>3, <1>6, <1>8 DEF TypeOK
<1>10. HasConfigs'
  BY <1>1, <1>3, <1>6 DEF HasConfigs, ClientHas
<1>11. Exclusion'
  BY <1>1, <1>3, <1>6 DEF ControlInv, Exclusion, At
<1>12. Sessions'
  BY <1>1, <1>3, <1>6, BoundsAreNaturals DEF ControlInv, Sessions, At
<1>13. SinceInv'
  BY <1>1, <1>3, <1>6 DEF ControlInv, SinceInv
<1>14. ControlInv'
  BY <1>6, <1>8, <1>9, <1>10, <1>11, <1>12, <1>13 DEF ControlInv, OnlyKnownOverwrites
<1>15. ASSUME lost' = {} PROVE DataInv'
  <2>1. lost = {}
    BY <1>1, <1>15
  <2>2. DataInv
    BY <2>1 DEF IInv
  <2>3. worker.since = {} /\ \A c \in Clients : client[c].pc \in Viewing \ {"edit"} => client[c].since # {}
    BY <1>1, <2>2 DEF DataInv, Told1
  <2>4. \A c \in Clients : ~Written(client[c])
    BY <1>2, <2>2, <2>3 DEF DataInv, Told1
  <2>5. \A c \in Clients : client[c].pc \notin LockSteps \ {"quick_build"}
    BY <1>1, <1>3 DEF ControlInv, Exclusion
  <2>6. Told1'
    BY <1>1, <1>6, <2>4 DEF Told1
  <2>7. file = worker.base
    BY <1>1, <2>2 DEF DataInv, FileInv
  <2>8. FileInv'
    <3>1. Desired' = config'
      BY <1>1, <1>3, <2>7, ShownAsIs DEF Desired
    <3> QED
      BY <1>1, <1>6, <2>4, <3>1 DEF FileInv
  <2>9. ViewInv'
    <3>1. \A c \in Clients :
            /\ client[c].pc \notin {"update_save", "update_reload", "update_restore"}
            /\ client[c].pc \notin ApplySteps \cup {"add_publish"}
            /\ client[c].pc \notin QuickSteps
      BY <2>4, <2>5 DEF LockSteps, QuickSteps, Written, Saved
    <3> QED
      BY <1>1, <3>1 DEF ViewInv, At
  <2>10. WorkerInv
    BY <2>2 DEF DataInv
  <2>11. /\ worker.base.managed = config.managed /\ session = worker.session
         /\ Removes => ~InPolicy(worker.domain) /\ worker.base.domains = Target
         /\ runner[session].domains = Target
    BY <1>1, <1>2, <2>3, <2>10 DEF WorkerInv
  <2>12. worker.base.domains = Target
    BY <2>11 DEF Target, Removes
  <2>13. NoneReloads' /\ \A c \in Clients : ~At(c, "update_publish")'
    BY <1>1, <1>3 DEF NoneReloads, At
  <2>14. RunnerInv'
    BY <1>1, <1>3, <2>2, <2>11, <2>12, <2>13 DEF DataInv, RunnerInv
  <2>15. PolicyInv'
    <3>1. ASSUME policy'.reported, NEW d \in Domains \ config'.domains, ops'[d] = "removed"
          PROVE  ~InPolicy(d)'
      <4>1. PolicyInv /\ (InPolicy(d)' <=> InPolicy(d)) /\ policy.reported
        BY <1>1, <2>2, <3>1 DEF DataInv, InPolicy
      <4>2. CASE worker.adds
        <5>1. worker.base.domains = config.domains
          BY <1>2, <2>10, <4>2 DEF WorkerInv
        <5>2. d # worker.domain
          BY <1>6, <3>1, <4>2 DEF state
        <5> QED
          BY <1>1, <1>3, <1>6, <3>1, <4>1, <5>1, <5>2 DEF PolicyInv
      <4>3. CASE ~worker.adds
        <5>1. Target = config.domains \ {worker.domain}
          BY <1>2, <2>10, <4>3 DEF WorkerInv, Target
        <5>2. CASE d = worker.domain
          BY <2>11, <4>1, <4>3, <5>2 DEF Removes
        <5>3. CASE d # worker.domain
          BY <1>1, <1>3, <1>6, <2>12, <3>1, <4>1, <5>1, <5>3 DEF PolicyInv
        <5> QED
          BY <5>2, <5>3
      <4> QED
        BY <4>2, <4>3
    <3> QED
      BY <2>13, <3>1 DEF PolicyInv
  <2> QED
    BY <1>6, <2>6, <2>8, <2>9, <2>14, <2>15 DEF DataInv
<1> QED
  BY <1>14, <1>15 DEF IInv

LEMMA WorkerReleasesKeeps ==
  ASSUME IInv, WorkerReleases, UNCHANGED <<session, plan, events, found, unrestored>>
  PROVE  IInv'
<1>1. worker.pc = "tail" /\ worker' = NoWorker
      /\ UNCHANGED <<file, config, runner, policy, ops, client, lost>>
  BY DEF WorkerReleases, WorkerAt
<1>2. TypeOK /\ ControlInv /\ HasConfigs /\ session \in 0..MaxSessions
  BY DEF IInv, ControlInv, TypeOK
<1>3. worker' \in Worker /\ worker'.pc = "idle" /\ worker'.since = {} /\ worker'.session = 0
  BY <1>1, NoWorkerType
<1>4. ~Working /\ ~Working' /\ ~HoldsSlot' /\ ~Looks' /\ ~Edited'
  BY <1>1, <1>3 DEF Working, HoldsSlot, Looks, Edited
<1>5. Operations'
  BY <1>1, <1>2, <1>4 DEF ControlInv, Operations, At
<1>6. WorkerInv'
  BY <1>3, <1>4 DEF WorkerInv
<1>7. lost = {} => RunnerInv' /\ PolicyInv'
  BY <1>1 DEF IInv, DataInv, RunnerInv, PolicyInv, NoneReloads, InPolicy, At
<1>8. 0 <= session /\ events' \in 0..MaxEvents
  BY <1>2, BoundsAreNaturals DEF TypeOK
<1> QED
  BY <1>1, <1>2, <1>3, <1>4, <1>5, <1>6, <1>7, <1>8, WorkerLocal DEF TypeOK, HasConfigs

-----------------------------------------------------------------------------
(* The beginning, restarts, and the theorems *)

\* Nobody does anything but to edit a copy, and file, memory, Runner and policy agree.
FreshState ==
  /\ TypeOK /\ HasConfigs /\ worker = NoWorker
  /\ \A c \in Clients : client[c].pc = "edit" \/ client[c] = Idle
  /\ ops = [d \in Domains |-> "none"] /\ lost = {} /\ session = 0 /\ Desired = config
  /\ runner = [s \in 0..MaxSessions |-> SettingsOf(config)]

\* The state of a daemon that has just started.
LEMMA Fresh == FreshState => IInv
<1> SUFFICES ASSUME FreshState PROVE IInv
  OBVIOUS
<1> USE DEF FreshState
<1>1. \A c \in Clients : client[c].pc \in {"idle", "edit"} /\ (client[c].pc = "idle" => client[c].since = {})
  BY IdleType
<1>2. worker.pc = "idle" /\ worker.since = {} /\ worker.session = 0
  BY NoWorkerType
<1>3. ~Working /\ ~HoldsSlot /\ ~Looks /\ ~Edited
  BY <1>2 DEF Working, HoldsSlot, Looks, Edited
<1>4. /\ {"idle", "edit"} \cap (Saved \cup LockSteps \cup Updating \cup QuickSteps \cup ApplySteps) = {}
      /\ "idle" \notin Viewing /\ "edit" \in Viewing /\ "edit" \in Stale
  BY DEF Viewing, Saved, LockSteps, Updating, QuickSteps, ApplySteps, Stale
<1>5. Exclusion /\ Operations
  BY <1>1, <1>2, <1>3, <1>4 DEF Exclusion, Operations, At, Active
<1>6. Sessions /\ SinceInv /\ OnlyKnownOverwrites
  BY <1>1, <1>2, <1>4, BoundsAreNaturals DEF Sessions, SinceInv, OnlyKnownOverwrites, At
<1>7. Told1 /\ FileInv /\ ViewInv
  BY <1>1, <1>2, <1>4 DEF Told1, FileInv, ViewInv, Written, At
<1>8. WorkerInv
  BY <1>2, <1>3 DEF WorkerInv
<1>9. session \in 0..MaxSessions
  BY DEF TypeOK
<1>10. RunnerInv /\ PolicyInv
  BY <1>1, <1>9 DEF RunnerInv, PolicyInv, NoneReloads, At, SettingsOf
<1> QED
  BY <1>5, <1>6, <1>7, <1>8, <1>10 DEF IInv, ControlInv, DataInv

LEMMA InitInvariant ==
  ASSUME Init
  PROVE  IInv
<1>1. PICK D \in SUBSET Domains, p \in Policy :
        /\ IF p.exists THEN Mapped(p.maps) = D /\ Injective(p.maps) ELSE p.maps = NoMaps
        /\ policy = p
        /\ file = [managed |-> FALSE, endpoint |-> 0, mihomo |-> NoController,
                 domains |-> D, maps |-> p.maps]
  BY DEF Init
<1>6. file \in Config
  BY <1>1 DEF Config, Policy, Mihomos
<1>7. PICK x \in Loaded(file) : config = x[1] /\ found = x[2]
  BY DEF Init
<1>2. config \in Config /\ found \in BOOLEAN /\ Desired = config
  BY <1>6, <1>7, LoadedType DEF Desired
<1>3. SettingsOf(config) \in Settings
  BY <1>2, SettingsType
<1>4. TypeOK
  <2>1. file \in Config /\ config \in Config /\ policy \in Policy
    BY <1>1, <1>2, <1>6 DEF Init
  <2>2. runner \in [0..MaxSessions -> Settings] /\ session \in 0..MaxSessions
    BY <1>3, BoundsAreNaturals DEF Init
  <2>3. ops \in [Domains -> OpStates]
    BY DEF Init, OpStates
  <2>4. worker \in Worker /\ client \in [Clients -> Client]
    BY IdleType, NoWorkerType DEF Init
  <2>5. plan \in Config \cup {NoConfig} /\ events \in 0..MaxEvents
    BY BoundsAreNaturals DEF Init
  <2>6. lost \subseteq Kinds \X Kinds /\ unrestored \in BOOLEAN
    <3>1. lost = {} /\ unrestored = FALSE
      BY DEF Init
    <3>2. unrestored \in BOOLEAN
      BY <3>1
    <3>3. lost \subseteq Kinds \X Kinds
      BY <3>1
    <3> QED
      BY <3>2, <3>3
  <2> QED
    BY <1>2, <2>1, <2>2, <2>3, <2>4, <2>5, <2>6 DEF TypeOK
<1>5. HasConfigs
  <2>1. \A c \in Clients : client[c].pc = "idle"
    BY IdleType DEF Init
  <2>2. worker.pc = "idle"
    BY NoWorkerType DEF Init
  <2> QED
    BY <1>1, <2>1, <2>2
       DEF HasConfigs, ClientHas, Updating, QuickSteps, ApplySteps, Looks, Working
<1> QED
  BY <1>2, <1>4, <1>5, Fresh DEF Init, FreshState

LEMMA RestartKeeps ==
  ASSUME IInv, Restart
  PROVE  IInv'
<1>1. TypeOK /\ HasConfigs
  BY DEF IInv, ControlInv
<1>2. SettingsOf(file) \in Settings /\ file \in Config
  BY <1>1, SettingsType DEF TypeOK
<1>3. events' \in 0..MaxEvents
  BY <1>1, Accepted DEF Restart
<1>8. PICK x \in Loaded(file) : config' = x[1] /\ found' = x[2]
  BY DEF Restart
<1>4. /\ file' = file /\ policy' = policy
      /\ runner' = [s \in 0..MaxSessions |-> SettingsOf(file)] /\ session' = 0
      /\ ops' = [d \in Domains |-> "none"] /\ worker' = NoWorker
      /\ client' = [c \in Clients |-> IF At(c, "edit") THEN client[c] ELSE Idle]
      /\ plan' = NoConfig /\ lost' = {} /\ unrestored' = FALSE
  BY DEF Restart
<1>9. /\ config' \in Config /\ found' \in BOOLEAN /\ Desired' = config'
      /\ SettingsOf(config') = SettingsOf(file)
  BY <1>2, <1>4, <1>8, LoadedType DEF Desired
<1>10. \A c \in Clients :
         \/ client'[c] = client[c] /\ client[c].pc = "edit"
         \/ client'[c] = Idle /\ client'[c].pc = "idle"
  BY <1>4, IdleType DEF At
<1>5. TypeOK'
  <2>1. file' \in Config /\ config' \in Config /\ policy' \in Policy
    BY <1>1, <1>2, <1>4, <1>9 DEF TypeOK
  <2>2. runner' \in [0..MaxSessions -> Settings] /\ session' \in 0..MaxSessions
    BY <1>2, <1>4, BoundsAreNaturals
  <2>3. ops' \in [Domains -> OpStates]
    BY <1>4 DEF OpStates
  <2>4. worker' \in Worker /\ client' \in [Clients -> Client]
    BY <1>1, <1>4, IdleType, NoWorkerType DEF TypeOK
  <2>5. plan' \in Config \cup {NoConfig}
    BY <1>4
  <2>6. found' \in BOOLEAN /\ lost' \subseteq Kinds \X Kinds /\ unrestored' \in BOOLEAN
    BY <1>4, <1>9
  <2> QED
    BY <1>3, <2>1, <2>2, <2>3, <2>4, <2>5, <2>6 DEF TypeOK
<1>6. HasConfigs'
  <2>1. \A c \in Clients : ClientHas(client'[c])
    <3>1. ClientHas(Idle)
      BY IdleType DEF ClientHas, Updating, QuickSteps, ApplySteps
    <3> QED
      BY <1>1, <1>10, <3>1 DEF HasConfigs
  <2>2. worker'.pc = "idle"
    BY <1>4, NoWorkerType
  <2> QED
    BY <1>1, <1>4, <2>1, <2>2
       DEF HasConfigs, ClientHas, Looks, Working
<1>7. FreshState'
  BY <1>4, <1>5, <1>6, <1>9, <1>10 DEF FreshState
<1> QED
  BY <1>7, Fresh, PTL

\* A step of nobody.
LEMMA StutterKeeps ==
  ASSUME IInv, UNCHANGED vars
  PROVE  IInv'
<1> USE DEF vars
<1>1. IInv /\ ControlInv
  BY DEF IInv
<1>2. /\ Working' = Working /\ HoldsSlot' = HoldsSlot /\ Removes' = Removes /\ Looks' = Looks
      /\ Edited' = Edited /\ Target' = Target /\ InForce' = InForce /\ Quiescent' = Quiescent
      /\ NoneReloads' = NoneReloads /\ Desired' = Desired
  BY DEF Working, HoldsSlot, Removes, Looks, Edited, Target, InForce, Waits, Quiescent, NoneReloads,
         Desired, At
<1>3. TypeOK' /\ HasConfigs' /\ Exclusion'
  BY <1>1, <1>2 DEF ControlInv, TypeOK, HasConfigs, Exclusion, At, ClientHas
<1>4. Operations' /\ Sessions' /\ SinceInv' /\ OnlyKnownOverwrites'
  BY <1>1, <1>2 DEF ControlInv, Operations, Sessions, SinceInv, OnlyKnownOverwrites, At
<1>5. ASSUME lost = {} PROVE DataInv'
  <2>1. DataInv
    BY <1>1, <1>5 DEF IInv
  <2>2. Told1' /\ FileInv' /\ ViewInv'
    BY <1>2, <2>1 DEF DataInv, Told1, FileInv, ViewInv, Current, At, Hot
  <2>3. WorkerInv' /\ RunnerInv' /\ PolicyInv'
    BY <1>2, <2>1 DEF DataInv, WorkerInv, RunnerInv, PolicyInv, At, InPolicy
  <2> QED
    BY <2>2, <2>3 DEF DataInv
<1> QED
  BY <1>3, <1>4, <1>5 DEF IInv, ControlInv

LEMMA WorkerStepKeeps ==
  ASSUME IInv, WorkerStep
  PROVE  IInv'
<1>1. UNCHANGED <<session, plan, events, found, unrestored>>
  BY DEF WorkerStep
<1>2. CASE WorkerTakes
  BY <1>1, <1>2, WorkerTakesKeeps
<1>3. CASE WorkerRefreshes
  BY <1>1, <1>3, WorkerRefreshesKeeps
<1>4. CASE WorkerRefreshFails
  BY <1>1, <1>4, WorkerRefreshFailsKeeps
<1>5. CASE WorkerDefers
  BY <1>1, <1>5, WorkerDefersKeeps
<1>6. CASE WorkerVerifies
  BY <1>1, <1>6, WorkerVerifiesKeeps
<1>7. CASE WorkerDoubts
  BY <1>1, <1>7, WorkerDoubtsKeeps
<1>8. CASE WorkerClears
  BY <1>1, <1>8, WorkerClearsKeeps
<1>9. CASE WorkerKeepsDomain
  BY <1>1, <1>9, WorkerKeepsDomainKeeps
<1>10. CASE WorkerSaves
  BY <1>1, <1>10, WorkerSavesKeeps
<1>11. CASE WorkerSaveFails
  BY <1>1, <1>11, WorkerSaveFailsKeeps
<1>12. CASE WorkerPublishes
  BY <1>1, <1>12, WorkerPublishesKeeps
<1>13. CASE WorkerRollsBack
  BY <1>1, <1>13, WorkerRollsBackKeeps
<1>14. CASE WorkerReleases
  BY <1>1, <1>14, WorkerReleasesKeeps
<1> QED
  BY <1>2, <1>3, <1>4, <1>5, <1>6, <1>7, <1>8, <1>9, <1>10, <1>11, <1>12, <1>13, <1>14
     DEF WorkerStep

LEMMA RequestKeeps ==
  ASSUME IInv, NEW c \in Clients, Request(c)
  PROVE  IInv'
<1>1. CASE Update(c)
  <2>1. UNCHANGED <<session, ops, plan>>
    BY <1>1 DEF Update
  <2> QED
    BY <1>1, <2>1, FetchesKeeps, UpdateBeginsKeeps, UpdateSavesKeeps, UpdateSaveFailsKeeps, UpdateReloadsKeeps,
       UpdatePublishesKeeps, UpdateRestoresKeeps, UpdateRestoreFailsKeeps DEF Update
<1>2. CASE Run(c)
  <2>1. UNCHANGED <<runner, session, ops, plan, found, unrestored>>
    BY <1>2 DEF Run
  <2> QED
    BY <1>2, <2>1, BenchmarkKeeps, RunBeginsKeeps, RunExecutesKeeps, RunSavesKeeps, RunEndsKeeps,
       RunPublishesKeeps DEF Run
<1>3. CASE Apply(c)
  <2>1. UNCHANGED <<runner, session, ops, plan, found>>
    BY <1>3 DEF Apply
  <2> QED
    BY <1>3, <2>1, ApplySavesKeeps, ApplySucceedsKeeps, ApplyDefersKeeps, ApplyFailsKeeps,
       ApplyPublishesKeeps, ApplyRestoresKeeps DEF Apply
<1>4. CASE Quick(c)
  <2>1. UNCHANGED <<ops, found, unrestored>>
    BY <1>4 DEF Quick
  <2> QED
    BY <1>4, <2>1, QuickPlansKeeps, QuickBeginsKeeps, QuickBuildsKeeps, QuickExecutesKeeps,
       QuickSavesKeeps, QuickOnceKeeps, QuickActivatesKeeps DEF Quick
<1>5. CASE AddPublishes(c)
  BY <1>5, AddPublishesKeeps
<1>6. CASE \E d \in Domains : Add(c, d) \/ Remove(c, d)
  BY <1>6, AddKeeps, RemoveKeeps
<1> QED
  BY <1>1, <1>2, <1>3, <1>4, <1>5, <1>6 DEF Request

LEMMA StepInvariant == IInv /\ [Next]_vars => IInv'
<1> SUFFICES ASSUME IInv, [Next]_vars PROVE IInv'
  OBVIOUS
<1>1. CASE Restart
  BY <1>1, RestartKeeps
<1>2. CASE WorkerStep
  BY <1>2, WorkerStepKeeps
<1>3. CASE \E c \in Clients : Request(c)
  BY <1>3, RequestKeeps
<1>4. CASE UNCHANGED vars
  BY <1>4, StutterKeeps
<1> QED
  BY <1>1, <1>2, <1>3, <1>4 DEF Next

\* The invariant, at every step of every request and worker.
THEOREM Invariant == Spec => []IInv
<1>1. Init => IInv
  BY InitInvariant
<1> QED
  BY <1>1, StepInvariant, PTL DEF Spec

\* The configurations, requests and histories keep their types; in particular an
\* operation on a domain and a request are only ever at the steps named.
THEOREM TypeCorrect == Spec => []TypeOK
<1>1. IInv => TypeOK
  BY DEF IInv, ControlInv
<1> QED
  BY <1>1, Invariant, PTL

\* Additions, removals, runs and quick starts never write over a change that
\* config.update applied at once, nor over each other's, but for a worker that lets
\* a run or a quick start save first (configurationMutex, activeCancel), for any
\* number of clients.  What can be written over is a save of domain apply and an
\* update that waits for a restart; what writes over anything is domain apply, and
\* a config.update of a copy that was fetched before.
THEOREM OverwritesKnown == Spec => []OnlyKnownOverwrites
<1>1. IInv => OnlyKnownOverwrites
  BY DEF IInv, ControlInv
<1> QED
  BY <1>1, Invariant, PTL

\* Between requests nothing is unpublished, and no operation is active.
LEMMA QuietRests ==
  ASSUME IInv, Quiet
  PROVE  Quiescent /\ NoneReloads /\ \A d \in Domains : ops[d] \notin Active
<1>1. \A c \in Clients : /\ client[c].pc \notin Saved
                         /\ client[c].pc \notin {"update_publish", "add_publish"}
  BY DEF Quiet, Saved, ApplySteps
<1>2. ~Working /\ worker.pc # "publish"
  BY DEF Quiet, Working
<1> QED
  BY <1>1, <1>2 DEF Quiescent, Written, NoneReloads, At, IInv, ControlInv, Operations

\* Between requests config.get shows what the daemon works with, whichever of their
\* saves, reloads and restorations failed (API.updateConfig, manual_domain.go,
\* runQuickStart) and whether or not a Mihomo was detected when the configuration
\* was loaded, unless the file waits for a restart, could not be restored, or lost
\* a change.
THEOREM MemoryCurrent == Spec => []MemoryIsCurrent
<1>1. IInv => MemoryIsCurrent
  BY QuietRests DEF MemoryIsCurrent, IInv, DataInv, FileInv, InForce
<1> QED
  BY <1>1, Invariant, PTL

\* Between requests the current Runner has the settings in memory, and its domains
\* but for those whose last operation failed, also after a quick start replaced it
\* under a worker (ActivateSession).
THEOREM RunnerFollows == Spec => []RunnerFollowsConfiguration
<1>1. IInv => RunnerFollowsConfiguration
  BY QuietRests DEF RunnerFollowsConfiguration, IInv, DataInv, RunnerInv
<1> QED
  BY <1>1, Invariant, PTL

\* A domain that was reported as removed has no mapping in a policy whose refresh
\* was reported as done (verifyRemovedManualDomain).
THEOREM RemovedLeave == Spec => []RemovedDomainsLeavePolicy
<1>1. IInv => RemovedDomainsLeavePolicy
  BY QuietRests DEF RemovedDomainsLeavePolicy, IInv, DataInv, PolicyInv
<1> QED
  BY <1>1, Invariant, PTL

-----------------------------------------------------------------------------
(* Nobody waits for ever *)

\* Where the code waits: the worker polls for the slot (waitForManualDomainSlot)
\* and blocks on configurationMutex for its save, and a request for an addition
\* starts its worker once the one before is gone.
WorkerWaits == (WorkerAt("poll") /\ ~TaskFree) \/ (WorkerAt("save") /\ ~LockFree)
AdditionStarts == worker.pc = "idle" /\ \E d \in Domains : ops[d] = "pending"
RequestWaits(c) == At(c, "add_publish") /\ ~AdditionStarts

\* Whoever waits does so for somebody who does not: while a request or an
\* operation on a domain goes on, one of them waits for nothing.
NobodyWaitsInACircle ==
  Quiet
  \/ (worker.pc # "idle" /\ ~WorkerWaits)
  \/ \E c \in Clients : client[c].pc \notin {"idle", "edit"} /\ ~RequestWaits(c)

\* A request for an addition has marked its domain.
AdditionPending ==
  \A c \in Clients : At(c, "add_publish") => \E d \in Domains : ops[d] = "pending"

\* No request becomes one for an addition.
NoNewAddition == \A c \in Clients : At(c, "add_publish")' => At(c, "add_publish")

\* A save of another request is none of an addition.
LEMMA SavesNoAddition ==
  ASSUME client \in [Clients -> Client], NEW c \in Clients, NEW kind, NEW cfg, NEW since,
         NEW then, then.pc # "add_publish", Saves(c, kind, cfg, since, then)
  PROVE  NoNewAddition
<1>1. client' = [x \in Clients |-> IF x = c THEN then ELSE Told(client[x], kind)]
  BY DEF Saves
<1>2. \A x \in Clients : Told(client[x], kind).pc = client[x].pc
  BY DEF Told, Client
<1> QED
  BY <1>1, <1>2 DEF NoNewAddition, At

\* Nor does a request that goes to another step.
LEMMA MovesNoAddition ==
  ASSUME client \in [Clients -> Client], NEW c \in Clients, NEW then,
         client' = [client EXCEPT ![c] = then], then.pc # "add_publish"
  PROVE  NoNewAddition
  BY DEF NoNewAddition, At

\* Nor one that only moves on.
LEMMA GoesNoAddition ==
  ASSUME client \in [Clients -> Client], NEW c \in Clients, NEW step,
         Goes(c, step), step # "add_publish"
  PROVE  NoNewAddition
<1>1. client' = [client EXCEPT ![c] = [client[c] EXCEPT !.pc = step]]
  BY DEF Goes
<1>2. [client[c] EXCEPT !.pc = step].pc = step
  BY DEF Client
<1> QED
  BY <1>1, <1>2, MovesNoAddition

\* Nor one that ends.
LEMMA EndsNoAddition ==
  ASSUME client \in [Clients -> Client], NEW c \in Clients, Ends(c)
  PROVE  NoNewAddition
<1>1. Idle.pc # "add_publish"
  BY DEF Idle
<1> QED
  BY <1>1, MovesNoAddition DEF Ends

\* Nor one that publishes and ends.
LEMMA PublishesNoAddition ==
  ASSUME client \in [Clients -> Client], NEW c \in Clients, NEW kind, NEW cfg,
         Publishes(c, kind, cfg)
  PROVE  NoNewAddition
<1>1. Idle.pc # "add_publish"
  BY DEF Idle
<1> QED
  BY <1>1, MovesNoAddition DEF Publishes

\* config.update.
LEMMA UpdateNoAddition ==
  ASSUME client \in [Clients -> Client], NEW c \in Clients, Update(c)
  PROVE  NoNewAddition
<1>7. CASE Fetches(c)
  <2> DEFINE new == [Idle EXCEPT !.pc = "edit", !.next = Desired]
  <2>1. client' = [client EXCEPT ![c] = new] /\ new.pc = "edit"
    BY <1>7 DEF Fetches, Idle
  <2> HIDE DEF new
  <2> QED
    BY <2>1, MovesNoAddition
<1>1. CASE UpdateBegins(c)
  <2> DEFINE Made(next) ==
               [Idle EXCEPT !.pc = "update_save", !.next = next, !.before = Desired,
                            !.hot = Hot(next), !.since = client[c].since \cup Unpublished]
  <2>1. PICK next \in Submitted(client[c].next) : client' = [client EXCEPT ![c] = Made(next)]
    BY <1>1 DEF UpdateBegins
  <2> DEFINE new == Made(next)
  <2>2. client' = [client EXCEPT ![c] = new]
    BY <2>1
  <2>3. new.pc = "update_save"
    BY DEF Idle
  <2> HIDE DEF new
  <2> QED
    BY <2>2, <2>3, MovesNoAddition
<1>2. CASE UpdateSaves(c)
  <2> DEFINE new == IF client[c].hot THEN [client[c] EXCEPT !.pc = "update_reload"] ELSE Idle
  <2>1. new.pc # "add_publish"
    BY DEF Idle, Client
  <2>2. PICK kind : Saves(c, kind, client[c].next, client[c].since, new)
    BY <1>2 DEF UpdateSaves
  <2> HIDE DEF new
  <2> QED
    BY <2>1, <2>2, SavesNoAddition
<1>3. CASE UpdateRestores(c)
  BY <1>3, SavesNoAddition DEF UpdateRestores, Idle
<1>4. CASE UpdateSaveFails(c) \/ UpdateRestoreFails(c)
  BY <1>4, EndsNoAddition DEF UpdateSaveFails, UpdateRestoreFails
<1>5. CASE UpdateReloads(c)
  BY <1>5, GoesNoAddition DEF UpdateReloads
<1>6. CASE UpdatePublishes(c)
  BY <1>6, PublishesNoAddition DEF UpdatePublishes
<1> QED
  BY <1>1, <1>2, <1>3, <1>4, <1>5, <1>6, <1>7 DEF Update

\* An optimization returns or fails.
LEMMA OptimizesNoAddition ==
  ASSUME client \in [Clients -> Client], NEW c \in Clients, NEW s,
         NEW step \in {"run_return", "quick_return"}, Optimizes(c, s, step)
  PROVE  NoNewAddition
<1>1. CASE Ends(c)
  BY <1>1, EndsNoAddition
<1>2. CASE \E m \in Allocations(runner[s].domains, NoMaps) :
             client' = [client EXCEPT ![c].pc = step, ![c].report = m]
  <2>1. PICK m : client' = [client EXCEPT ![c].pc = step, ![c].report = m]
    BY <1>2
  <2>2. \A e \in Clients : client'[e].pc = IF e = c THEN step ELSE client[e].pc
    BY <2>1 DEF Client
  <2> QED
    BY <2>2 DEF NoNewAddition, At
<1> QED
  BY <1>1, <1>2 DEF Optimizes

\* optimizer.run.
LEMMA RunNoAddition ==
  ASSUME client \in [Clients -> Client], NEW c \in Clients, Run(c)
  PROVE  NoNewAddition
<1>1. CASE Benchmark(c)
  BY <1>1, GoesNoAddition, EndsNoAddition DEF Benchmark
<1>2. CASE RunBegins(c)
  <2> DEFINE new == [Idle EXCEPT !.pc = "run_execute", !.session = session]
  <2>1. client' = [client EXCEPT ![c] = new] /\ new.pc = "run_execute"
    BY <1>2 DEF RunBegins, Idle
  <2> HIDE DEF new
  <2> QED
    BY <2>1, MovesNoAddition
<1>3. CASE RunExecutes(c)
  BY <1>3, OptimizesNoAddition DEF RunExecutes
<1>4. CASE RunSaves(c)
  <2> DEFINE next == [config EXCEPT !.maps = Pruned(client[c].report, config.domains)]
             new == [client[c] EXCEPT !.pc = "run_publish", !.report = next.maps]
  <2>1. new.pc = "run_publish"
    BY DEF Client
  <2>2. Saves(c, "run", next, NotInMemory, new)
    BY <1>4 DEF RunSaves
  <2> HIDE DEF new, next
  <2> QED
    BY <2>1, <2>2, SavesNoAddition
<1>5. CASE RunEnds(c)
  BY <1>5, EndsNoAddition DEF RunEnds
<1>6. CASE RunPublishes(c)
  BY <1>6, PublishesNoAddition DEF RunPublishes
<1> QED
  BY <1>1, <1>2, <1>3, <1>4, <1>5, <1>6 DEF Run

\* Runtime.ApplyManualDomainMapping.
LEMMA ApplyNoAddition ==
  ASSUME client \in [Clients -> Client], NEW c \in Clients, Apply(c)
  PROVE  NoNewAddition
<1>1. CASE \E d \in Domains, address \in Addresses : ApplySaves(c, d, address)
  <2>1. PICK d \in Domains, address \in Addresses : ApplySaves(c, d, address)
    BY <1>1
  <2> DEFINE next == [config EXCEPT !.maps = FullMappings(d, address)]
             new == [Idle EXCEPT !.pc = "apply_refresh", !.next = next, !.before = config,
                                 !.session = session]
  <2>2. Saves(c, "apply", next, NotInMemory, new)
    BY <2>1 DEF ApplySaves
  <2>3. new.pc = "apply_refresh"
    BY DEF Idle
  <2> HIDE DEF new, next
  <2> QED
    BY <2>2, <2>3, SavesNoAddition
<1>2. CASE ApplySucceeds(c) \/ ApplyDefers(c) \/ ApplyFails(c)
  BY <1>2, GoesNoAddition DEF ApplySucceeds, ApplyDefers, ApplyFails
<1>3. CASE ApplyPublishes(c)
  BY <1>3, PublishesNoAddition DEF ApplyPublishes
<1>4. CASE ApplyRestores(c)
  <2>1. Idle.pc = "idle"
    BY DEF Idle
  <2> QED
    BY <1>4, <2>1, SavesNoAddition, EndsNoAddition DEF ApplyRestores
<1> QED
  BY <1>1, <1>2, <1>3, <1>4 DEF Apply

\* Quick start.
LEMMA QuickNoAddition ==
  ASSUME client \in [Clients -> Client], NEW c \in Clients, Quick(c)
  PROVE  NoNewAddition
<1>1. CASE QuickPlans(c)
  BY <1>1 DEF QuickPlans, NoNewAddition, At
<1>2. CASE QuickBegins(c)
  <2> DEFINE new == [Idle EXCEPT !.pc = "quick_build"]
  <2>1. client' = [client EXCEPT ![c] = new] \/ client' = client
    BY <1>2 DEF QuickBegins
  <2>2. new.pc = "quick_build"
    BY DEF Idle
  <2> HIDE DEF new
  <2> QED
    BY <2>1, <2>2, MovesNoAddition DEF NoNewAddition, At
<1>3. CASE QuickBuilds(c)
  <2> DEFINE next == [config EXCEPT !.managed = TRUE]
  <2>1. CASE client' = [client EXCEPT ![c] = [@ EXCEPT !.pc = "quick_execute", !.next = next,
                                       !.session = session + 1, !.since = NotInMemory]]
    <3> DEFINE new == [client[c] EXCEPT !.pc = "quick_execute", !.next = next,
                                       !.session = session + 1, !.since = NotInMemory]
    <3>1. client' = [client EXCEPT ![c] = new]
      BY <2>1
    <3>2. new.pc = "quick_execute"
      BY DEF Client
    <3> HIDE DEF new
    <3> QED
      BY <3>1, <3>2, MovesNoAddition
  <2>2. CASE Ends(c)
    BY <2>2, EndsNoAddition
  <2> QED
    BY <1>3, <2>1, <2>2 DEF QuickBuilds
<1>4. CASE QuickExecutes(c)
  BY <1>4, OptimizesNoAddition DEF QuickExecutes
<1>5. CASE QuickSaves(c)
  <2>1. PICK next : Saves(c, "quick", next, client[c].since,
                          [client[c] EXCEPT !.pc = "quick_activate", !.next = next])
    BY <1>5 DEF QuickSaves
  <2>2. [client[c] EXCEPT !.pc = "quick_activate", !.next = next].pc = "quick_activate"
    BY DEF Client
  <2> QED
    BY <2>1, <2>2, SavesNoAddition
<1>6. CASE QuickOnce(c)
  <2> DEFINE new == [Idle EXCEPT !.pc = "run_return", !.report = client[c].report]
  <2>1. client' = [client EXCEPT ![c] = new] /\ new.pc = "run_return"
    BY <1>6 DEF QuickOnce, Idle
  <2> HIDE DEF new
  <2> QED
    BY <2>1, MovesNoAddition
<1>7. CASE QuickActivates(c)
  BY <1>7, PublishesNoAddition DEF QuickActivates
<1> QED
  BY <1>1, <1>2, <1>3, <1>4, <1>5, <1>6, <1>7 DEF Quick

\* The operation on a domain ends before its request does, or after it began.
LEMMA WorkerNoAddition ==
  ASSUME IInv, AdditionPending, WorkerStep
  PROVE  AdditionPending'
<1>1. client \in [Clients -> Client]
  BY DEF IInv, ControlInv, TypeOK
<1>2. \A c \in Clients : client'[c].pc = client[c].pc
  <2>1. CASE WorkerSaves
    BY <1>1, <2>1 DEF WorkerSaves, Told, Client
  <2>2. CASE ~WorkerSaves
    BY <2>2 DEF WorkerStep, WorkerTakes, WorkerRefreshes, WorkerRefreshFails, WorkerDefers,
      WorkerVerifies, WorkerDoubts, WorkerClears, WorkerKeepsDomain, WorkerSaveFails,
      WorkerPublishes, WorkerRollsBack, WorkerReleases, WorkerMoves
  <2> QED
    BY <2>1, <2>2
<1>3. CASE Working
  BY <1>2, <1>3 DEF AdditionPending, At, IInv, ControlInv, Exclusion
<1>4. CASE ~Working
  <2>1. WorkerReleases
    BY <1>4 DEF Working, WorkerStep, WorkerTakes, WorkerRefreshes, WorkerRefreshFails,
      WorkerDefers, WorkerVerifies, WorkerDoubts, WorkerClears, WorkerKeepsDomain, WorkerSaves,
      WorkerSaveFails, WorkerPublishes, WorkerRollsBack, WorkerAt
  <2> QED
    BY <1>2, <2>1 DEF WorkerReleases, AdditionPending, At
<1> QED
  BY <1>3, <1>4

\* A request for an addition keeps its mark until its worker has it.
LEMMA AdditionStaysPending ==
  ASSUME IInv, AdditionPending, Next
  PROVE  AdditionPending'
<1>1. client \in [Clients -> Client] /\ ops \in [Domains -> OpStates]
  BY DEF IInv, ControlInv, TypeOK
<1>2. ASSUME NoNewAddition, UNCHANGED ops PROVE AdditionPending'
  BY <1>2 DEF NoNewAddition, AdditionPending, At
<1>3. CASE Restart
  BY <1>3 DEF Restart, AdditionPending, At, Idle
<1>4. CASE WorkerStep
  BY <1>4, WorkerNoAddition
<1>5. ASSUME NEW c \in Clients, Update(c) \/ Run(c) \/ Apply(c) \/ Quick(c) \/ AddPublishes(c)
      PROVE  AdditionPending'
  <2>1. UNCHANGED ops
    BY <1>5 DEF Update, Run, Apply, Quick, AddPublishes
  <2>2. NoNewAddition
    BY <1>1, <1>5, UpdateNoAddition, RunNoAddition, ApplyNoAddition, QuickNoAddition,
       PublishesNoAddition DEF AddPublishes
  <2> QED
    BY <1>2, <2>1, <2>2
<1>6. ASSUME NEW c \in Clients, NEW d \in Domains, Add(c, d) PROVE AdditionPending'
  <2>1. CASE ops' = [ops EXCEPT ![d] = "pending"]
    BY <1>1, <2>1 DEF AdditionPending
  <2>2. CASE UNCHANGED client
    BY <1>6, <2>2 DEF Add, LockFree, LockSteps, AdditionPending, At
  <2> QED
    BY <1>6, <2>1, <2>2 DEF Add
<1>7. ASSUME NEW c \in Clients, NEW d \in Domains, Remove(c, d) PROVE AdditionPending'
  BY <1>7 DEF Remove, LockFree, LockSteps, AdditionPending, At
<1> QED
  BY <1>3, <1>4, <1>5, <1>6, <1>7 DEF Next, Request

\* The slot, configurationMutex and the worker's polling never wait for each
\* other in a circle (manual_domain.go, api.go), for any number of clients.
THEOREM NoCircularWaits == Spec => []NobodyWaitsInACircle
<1>1. IInv /\ AdditionPending => NobodyWaitsInACircle
  <2> SUFFICES ASSUME IInv, AdditionPending, ~Quiet PROVE NobodyWaitsInACircle
    BY DEF NobodyWaitsInACircle
  <2>1. CASE worker.pc = "idle"
    <3>1. PICK c \in Clients : client[c].pc \notin {"idle", "edit", "benchmark"}
      BY <2>1 DEF Quiet
    <3>2. ~RequestWaits(c)
      BY <2>1 DEF RequestWaits, AdditionStarts, AdditionPending
    <3> QED
      BY <3>1, <3>2 DEF NobodyWaitsInACircle, At
  <2>2. CASE WorkerAt("poll") /\ ~TaskFree
    <3>1. PICK c \in Clients : client[c].pc \in TaskSteps \cup {"update_save"}
      BY <2>2 DEF TaskFree, WorkerAt, At
    <3>2. client[c].pc \notin {"idle", "edit", "add_publish"}
      BY <3>1 DEF TaskSteps
    <3> QED
      BY <3>2 DEF NobodyWaitsInACircle, RequestWaits, At
  <2>3. CASE WorkerAt("save") /\ ~LockFree
    <3>1. PICK c \in Clients : client[c].pc \in LockSteps
      BY <2>3 DEF LockFree
    <3>2. client[c].pc # "add_publish"
      BY <2>3 DEF IInv, ControlInv, Exclusion, Working, WorkerAt
    <3>3. client[c].pc \notin {"idle", "edit"}
      BY <3>1 DEF LockSteps
    <3> QED
      BY <3>2, <3>3 DEF NobodyWaitsInACircle, RequestWaits, At
  <2> QED
    BY <2>1, <2>2, <2>3 DEF NobodyWaitsInACircle, WorkerWaits
<1>2. Init => AdditionPending
  BY DEF Init, AdditionPending, At, Idle
<1>3. IInv /\ AdditionPending /\ [Next]_vars => AdditionPending'
  <2>1. ASSUME AdditionPending, UNCHANGED vars PROVE AdditionPending'
    BY <2>1 DEF vars, AdditionPending, At
  <2> QED
    BY <2>1, AdditionStaysPending
<1> QED
  BY <1>1, <1>2, <1>3, Invariant, PTL DEF Spec

===============================================================================
