--------------------------- MODULE LlamaServices ---------------------------
(***************************************************************************)
(* The managed services: their draft and applied configuration, the unit   *)
(* file in the systemd directory and the one in the archive, the profiles  *)
(* a draft is taken from, and the benchmarks that keep a snapshot of what  *)
(* is deployed.                                                            *)
(*                                                                         *)
(* A request loads the row of its service, talks to systemd for seconds to *)
(* minutes, and commits.  Its session writes only the columns whose value  *)
(* differs from the one it loaded, over whatever others have committed     *)
(* meanwhile: host and port are two columns.                               *)
(*                                                                         *)
(* The text of a unit is determined by the arguments of the launch         *)
(* configuration, the host and the port.  What else the service and the    *)
(* configuration hold (health and request path, labels, the models of a    *)
(* router) never reaches it.                                               *)
(***************************************************************************)
EXTENDS Naturals, FiniteSets

CONSTANTS
  Services, Configs, Profiles,
  Hosts, Ports,
  Paths,         \* health_path and request_path
  Args,          \* the arguments each configuration yields
  Forms,         \* what clients send to create or update a service
  Handlers,      \* threads that serve requests
  Deployed,      \* services that exist and are deployed at first
  FirstPayload,  \* what they were created with
  NULL, GONE,
  MaxRequests,   \* bound on the requests that take more than one step
  MaxCrashes     \* bound on restarts of the process and failing commits

Address(x) == [host |-> x.host, port |-> x.port]
Addresses  == [host : Hosts, port : Ports]
Payload    == [host : Hosts, port : Ports, paths : Paths]

ASSUME ServicesAssumption ==
  /\ Deployed \subseteq Services /\ Forms \subseteq Payload
  /\ FirstPayload \in [Deployed -> Payload]
  /\ \A s, t \in Deployed : s # t => Address(FirstPayload[s]) # Address(FirstPayload[t])
  /\ Configs # {} /\ {MaxRequests, MaxCrashes} \subseteq Nat
  /\ NULL \notin Configs \cup Profiles \cup Payload /\ NULL # GONE

VARIABLES
  row,        \* llama_services: NULL before the insert, GONE after the delete
  unit, kept, \* unit file of each service, in place and in the archive
  profiles,   \* profiles that exist
  jobs,       \* what benchmark_jobs keep of their service
  req,        \* the request each handler is working on
  \* history, read by no guard: services on which two slow requests have ever
  \* overlapped, services on which they overlapped or one was cut off and no
  \* deployment has set things right since, the text that each service's last
  \* deployment has left if systemd refused it, and addresses stored while
  \* another request was about to use them or without having been checked
  mixed, disturbed, refused, raced,
  requests, crashes

diskVars == <<unit, kept>>
history  == <<mixed, disturbed, refused, raced>>
budgets  == <<requests, crashes>>
vars == <<row, diskVars, profiles, jobs, req, history, budgets>>

Content == [args : {Args[c] : c \in Configs}, host : Hosts, port : Ports]
Row == [host : Hosts, port : Ports, paths : Paths,
        config : Configs \cup {NULL}, source : Profiles \cup {NULL}, archived : BOOLEAN,
        rendered : Content \cup {NULL}, applied : Configs \cup {NULL},
        appliedService : Payload \cup {NULL}, appliedSource : Profiles \cup {NULL}]
Quick == {"create", "update", "benchmark"}
Slow  == {"deploy", "archive", "restore", "delete"}

Exists(s) == row[s] \notin {NULL, GONE}
Live(s)   == Exists(s) /\ ~row[s].archived

\* What render_unit makes of a configuration and of a service or its payload.
Text(c, x) == [args |-> Args[c], host |-> x.host, port |-> x.port]
Render(r)  == Text(r.config, r)

\* payload_for_service
PayloadOf(r) == [host |-> r.host, port |-> r.port, paths |-> r.paths]

\* has_pending_changes: all of the configuration and of the payload counts.
Pending(r) == \/ r.config # r.applied
              \/ r.applied # NULL /\ PayloadOf(r) # r.appliedService

NewRow(p) == [host |-> p.host, port |-> p.port, paths |-> p.paths,
              config |-> NULL, source |-> NULL, archived |-> FALSE,
              rendered |-> NULL, applied |-> NULL, appliedService |-> NULL,
              appliedSource |-> NULL]

\* What a deployment that systemd accepted stores.
Recorded(seen) ==
  [seen EXCEPT !.rendered = Render(seen), !.applied = seen.config,
               !.appliedService = PayloadOf(seen), !.appliedSource = seen.source]

Init ==
  \E c \in Configs :
    LET r(s) == Recorded([NewRow(FirstPayload[s]) EXCEPT !.config = c])
    IN /\ row = [s \in Services |-> IF s \in Deployed THEN r(s) ELSE NULL]
       /\ unit = [s \in Services |-> IF s \in Deployed THEN r(s).rendered ELSE NULL]
       /\ kept = [s \in Services |-> NULL]
       /\ profiles = {} /\ jobs = {}
       /\ req = [h \in Handlers |-> NULL]
       /\ mixed = {} /\ disturbed = {} /\ raced = {}
       /\ refused = [s \in Services |-> NULL]
       /\ requests = 0 /\ crashes = 0

-----------------------------------------------------------------------------
(***************************************************************************)
(* Profiles and drafts: one short transaction each.                        *)
(***************************************************************************)
CreateProfile(p) ==
  /\ p \notin profiles /\ \A j \in jobs : j.profile # p
  /\ profiles' = profiles \cup {p}
  /\ UNCHANGED <<row, diskVars, jobs, req, history, budgets>>

\* Only benchmarks (and the old switch jobs) protect a profile: services that
\* were deployed from it do not.
DeleteProfile(p) ==
  /\ p \in profiles /\ \A j \in jobs : j.profile # p
  /\ profiles' = profiles \ {p}
  /\ UNCHANGED <<row, diskVars, jobs, req, history, budgets>>

\* A profile may hold any configuration by the time it is selected.
SelectProfile(s, p, c) ==
  /\ Exists(s) /\ p \in profiles
  /\ row' = [row EXCEPT ![s].config = c, ![s].source = p]
  /\ UNCHANGED <<diskVars, profiles, jobs, req, history, budgets>>

UpdateLaunchConfig(s, c) ==
  /\ Exists(s)
  /\ row' = [row EXCEPT ![s].config = c]
  /\ UNCHANGED <<diskVars, profiles, jobs, req, history, budgets>>

-----------------------------------------------------------------------------
(***************************************************************************)
(* Requests of several steps.                                              *)
(***************************************************************************)
Taken(s, a) == \E t \in Services \ {s} : Live(t) /\ Address(row[t]) = a

Deployable(s) == Live(s) /\ row[s].config # NULL

\* Mutant: a service is measured before anything was deployed.
Measurable_Undeployed(s) == Live(s)

Measurable(s) == Live(s) /\ row[s].applied # NULL

\* Mutant: the address is taken back without a look at the others.
Restorable_Unchecked(s) == Exists(s) /\ row[s].archived

Restorable(s) == Exists(s) /\ row[s].archived /\ ~Taken(s, Address(row[s]))

Allowed(op, s) ==
  CASE op = "deploy"    -> Deployable(s)
    [] op = "archive"   -> Live(s)
    [] op = "restore"   -> Restorable(s)
    [] op = "delete"    -> Exists(s)
    [] op = "benchmark" -> Measurable(s)

Working(ops, s) == {h \in Handlers : req[h] # NULL /\ req[h].op \in ops /\ req[h].service = s}

Accept(h, op, s, p, seen) ==
  LET others == IF op \in Slow THEN Working(Slow, s) ELSE {}
      overlap == IF others = {} THEN {} ELSE {s}
  IN /\ req[h] = NULL /\ requests < MaxRequests
     /\ req' = [g \in Handlers |->
                  IF g = h THEN [op |-> op, service |-> s, payload |-> p, seen |-> seen,
                                 step |-> IF op \in Slow THEN "disk" ELSE "store",
                                 alone |-> others = {}]
                  ELSE IF g \in others THEN [req[g] EXCEPT !.alone = FALSE] ELSE req[g]]
     /\ requests' = requests + 1
     /\ mixed' = mixed \cup overlap /\ disturbed' = disturbed \cup overlap
     /\ UNCHANGED <<row, diskVars, profiles, jobs, refused, raced, crashes>>

Create(h, s, p) == row[s] = NULL /\ ~Taken(s, Address(p)) /\ Accept(h, "create", s, p, NULL)
Update(h, s, p) == Exists(s) /\ ~Taken(s, Address(p)) /\ Accept(h, "update", s, p, row[s])
Begin(h, op, s) == Allowed(op, s) /\ Accept(h, op, s, PayloadOf(row[s]), row[s])

\* What the request does to the unit files.
Disk(h) ==
  LET s == req[h].service  op == req[h].op  seen == req[h].seen
      Files(u, k) == unit' = [unit EXCEPT ![s] = u] /\ kept' = [kept EXCEPT ![s] = k]
  IN /\ req[h] # NULL /\ req[h].step = "disk"
     /\ CASE op = "deploy"  -> Files(Render(seen), kept[s])
          [] op = "archive" -> IF unit[s] # NULL THEN Files(NULL, unit[s]) ELSE UNCHANGED diskVars
          [] op = "restore" -> IF kept[s] # NULL THEN Files(kept[s], NULL)
                               ELSE IF seen.rendered # NULL THEN Files(seen.rendered, NULL)
                               ELSE UNCHANGED diskVars
          [] op = "delete"  -> Files(NULL, NULL)
     /\ req' = [req EXCEPT ![h].step = "store"]
     /\ UNCHANGED <<row, profiles, jobs, history, budgets>>

\* The columns that the request has changed.  A row deleted meanwhile makes
\* the commit fail.
Write(s, seen, new) ==
  IF Exists(s)
  THEN row' = [row EXCEPT ![s] = [f \in DOMAIN new |-> IF new[f] # seen[f] THEN new[f] ELSE @[f]]]
  ELSE UNCHANGED row

Contested(h, a) ==
  \E g \in Handlers \ {h} :
    /\ req[g] # NULL /\ req[g].op \in {"create", "update", "restore"}
    /\ Address(req[g].payload) = a \/ req[g].service = req[h].service

Finish(h, op) ==
  /\ req[h] # NULL /\ req[h].op = op /\ req[h].step = "store"
  /\ req' = [req EXCEPT ![h] = NULL]

\* The address a that the row has now is not the one the request has checked
\* when another one has changed a column in between.
Claim(h, a) ==
  raced' = IF Contested(h, a) \/ a # Address(req[h].payload) THEN raced \cup {a} ELSE raced

StoreCreate(h) ==
  LET s == req[h].service  p == req[h].payload
  IN /\ Finish(h, "create")
     /\ row' = IF row[s] = NULL THEN [row EXCEPT ![s] = NewRow(p)] ELSE row
     /\ Claim(h, Address(p))
     /\ UNCHANGED <<diskVars, profiles, jobs, mixed, disturbed, refused, budgets>>

StoreUpdate(h) ==
  LET s == req[h].service  p == req[h].payload  seen == req[h].seen
  IN /\ Finish(h, "update")
     /\ Write(s, seen, [seen EXCEPT !.host = p.host, !.port = p.port, !.paths = p.paths])
     /\ Claim(h, Address(IF Exists(s) THEN row'[s] ELSE p))
     /\ UNCHANGED <<diskVars, profiles, jobs, mixed, disturbed, refused, budgets>>

\* Nothing else was going on: whatever was left behind is overwritten.
Repair(h) == disturbed' = IF req[h].alone THEN disturbed \ {req[h].service} ELSE disturbed

\* Mutant: the row is loaded again after systemd has answered.
StoreDeploy_ReadAgain(h) ==
  LET s == req[h].service
      now == row[s]
  IN /\ Finish(h, "deploy")
     /\ Exists(s) => Write(s, now, [Recorded(now) EXCEPT !.rendered = Render(req[h].seen)])
     /\ ~Exists(s) => UNCHANGED row
     /\ refused' = [refused EXCEPT ![s] = NULL] /\ Repair(h)
     /\ UNCHANGED <<diskVars, profiles, jobs, mixed, raced, budgets>>

\* systemd has reloaded the unit and started it.
StoreDeploy(h) ==
  LET s == req[h].service  seen == req[h].seen
  IN /\ Finish(h, "deploy")
     /\ Write(s, seen, Recorded(seen))
     /\ refused' = [refused EXCEPT ![s] = NULL] /\ Repair(h)
     /\ UNCHANGED <<diskVars, profiles, jobs, mixed, raced, budgets>>

\* daemon-reload or enable --now failed: nothing is stored, the file stays.
DeployRefused(h) ==
  /\ Finish(h, "deploy")
  /\ refused' = [refused EXCEPT ![req[h].service] = Render(req[h].seen)]
  /\ UNCHANGED <<row, diskVars, profiles, jobs, mixed, disturbed, raced, budgets>>

\* Archive and restore are stored whatever systemctl answered.
StoreArchive(h) ==
  LET s == req[h].service  seen == req[h].seen
  IN /\ Finish(h, "archive")
     /\ Write(s, seen, [seen EXCEPT !.archived = TRUE])
     /\ UNCHANGED <<diskVars, profiles, jobs, history, budgets>>

StoreRestore(h) ==
  LET s == req[h].service  seen == req[h].seen
  IN /\ Finish(h, "restore")
     /\ Write(s, seen, [seen EXCEPT !.archived = FALSE])
     /\ Claim(h, Address(IF Exists(s) THEN row[s] ELSE seen))
     /\ UNCHANGED <<diskVars, profiles, jobs, mixed, disturbed, refused, budgets>>

StoreDelete(h) ==
  /\ Finish(h, "delete")
  /\ row' = [row EXCEPT ![req[h].service] = GONE]
  /\ Repair(h)
  /\ UNCHANGED <<diskVars, profiles, jobs, mixed, refused, raced, budgets>>

\* Mutant: the foreign key of benchmark_jobs is not enforced.
Known_Unchecked(p) == TRUE

Known(p) == p = NULL \/ p \in profiles

\* The job keeps what the service had applied when it was read; the foreign
\* key refuses a profile that is no longer there.
StoreBenchmark(h) ==
  LET s == req[h].service  seen == req[h].seen
  IN /\ Finish(h, "benchmark")
     /\ jobs' = IF Known(seen.appliedSource)
                THEN jobs \cup {[service |-> s, profile |-> seen.appliedSource, unit |-> seen.rendered,
                                 config |-> seen.applied, payload |-> seen.appliedService]}
                ELSE jobs
     /\ UNCHANGED <<row, diskVars, profiles, history, budgets>>

Store(h) == \/ StoreCreate(h) \/ StoreUpdate(h) \/ StoreDeploy(h) \/ DeployRefused(h)
            \/ StoreArchive(h) \/ StoreRestore(h) \/ StoreDelete(h) \/ StoreBenchmark(h)

\* The file operation raises: the request ends before it has changed anything.
DiskFails(h) ==
  /\ req[h] # NULL /\ req[h].step = "disk"
  /\ req' = [req EXCEPT ![h] = NULL]
  /\ UNCHANGED <<row, diskVars, profiles, jobs, history, budgets>>

CutOff(handlers) ==
  /\ \E h \in handlers : req[h] # NULL
  /\ crashes < MaxCrashes /\ crashes' = crashes + 1
  /\ req' = [h \in Handlers |-> IF h \in handlers THEN NULL ELSE req[h]]
  /\ disturbed' = disturbed \cup {s \in Services : Working(Slow, s) \cap handlers # {}}
  /\ UNCHANGED <<row, diskVars, profiles, jobs, mixed, refused, raced, requests>>

\* The commit raises, or the process ends; a restart repairs nothing here, and
\* changes nothing when no request is under way.
CommitFails(h) == req[h] # NULL /\ req[h].step = "store" /\ CutOff({h})
Crash == CutOff(Handlers)

-----------------------------------------------------------------------------
Next ==
  \/ \E p \in Profiles : \/ CreateProfile(p) \/ DeleteProfile(p)
                         \/ \E s \in Services, c \in Configs : SelectProfile(s, p, c)
  \/ \E s \in Services, c \in Configs : UpdateLaunchConfig(s, c)
  \/ \E h \in Handlers :
       \/ \E s \in Services : \/ \E p \in Forms : Create(h, s, p) \/ Update(h, s, p)
                              \/ \E op \in Slow \cup {"benchmark"} : Begin(h, op, s)
       \/ Disk(h) \/ DiskFails(h) \/ Store(h) \/ CommitFails(h)
  \/ Crash

Spec == Init /\ [][Next]_vars

-----------------------------------------------------------------------------
Request == [op : Slow \cup Quick, service : Services, payload : Payload,
            seen : Row \cup {NULL}, step : {"disk", "store"}, alone : BOOLEAN]

\* The null values are no records (for the proofs).
ASSUME RecordAssumption == NULL \notin Content \cup Request /\ {NULL, GONE} \cap Row = {}

TypeOK ==
  /\ row \in [Services -> Row \cup {NULL, GONE}]
  /\ unit \in [Services -> Content \cup {NULL}] /\ kept \in [Services -> Content \cup {NULL}]
  /\ profiles \subseteq Profiles
  /\ jobs \subseteq [service : Services, profile : Profiles \cup {NULL}, unit : Content,
                     config : Configs, payload : Payload]
  /\ req \in [Handlers -> Request \cup {NULL}]
  /\ mixed \subseteq Services /\ disturbed \subseteq Services
  /\ refused \in [Services -> Content \cup {NULL}] /\ raced \subseteq Addresses
  /\ requests \in 0..MaxRequests /\ crashes \in 0..MaxCrashes

Quiet(s) == Working(Slow, s) = {} /\ s \notin disturbed

\* Between deployments the unit file is where the row says: in place, in the
\* archive, or nowhere once the service is deleted.  It holds the text of the
\* last deployment, the recorded one unless systemd refused it; and while it
\* is the recorded one, a service without pending changes has in its file what
\* a new deployment would write.  (Not the other way round: a label or a
\* health path is pending and changes nothing in the file.)
Last(s) == IF refused[s] # NULL THEN refused[s] ELSE row[s].rendered
UnitFileOK ==
  \A s \in Services : Quiet(s) =>
    /\ row[s] = GONE => unit[s] = NULL /\ kept[s] = NULL
    /\ Exists(s) => IF row[s].archived THEN unit[s] = NULL /\ kept[s] = Last(s)
                                       ELSE unit[s] = Last(s)
    /\ Live(s) /\ refused[s] = NULL /\ row[s].applied # NULL /\ ~Pending(row[s]) =>
         unit[s] = Render(row[s])

\* No two services in use have the same host and port, unless that pair was
\* stored between the check and the commit of another request, or was put
\* together from the columns of two overlapping updates and never checked.
AddressUnique ==
  \A s, t \in Services :
    s # t /\ Live(s) /\ Live(t) /\ Address(row[s]) = Address(row[t]) => Address(row[s]) \in raced

\* What is measured can be traced back: the configuration and the service that
\* a row calls applied, and those a benchmark keeps, are the ones its unit
\* text was rendered from, and the profile a benchmark names exists.  Only
\* overlapping deployments of one service may mix their columns.
Traceable ==
  /\ \A s \in Services \ mixed : Exists(s) /\ row[s].applied # NULL =>
       row[s].rendered = Text(row[s].applied, row[s].appliedService)
  /\ \A j \in jobs : /\ j.profile # NULL => j.profile \in profiles
                     /\ j.service \notin mixed => j.unit = Text(j.config, j.payload)
=============================================================================
