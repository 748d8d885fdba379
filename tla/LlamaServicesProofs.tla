------------------------ MODULE LlamaServicesProofs ------------------------
(***************************************************************************)
(* Proofs about the services, for every number of services, hosts, ports,  *)
(* configurations, handlers, requests and failures, and for every function *)
(* from configurations to arguments.                                       *)
(***************************************************************************)
EXTENDS LlamaServices, TLAPS

USE ServicesAssumption DEF ServicesAssumption

-----------------------------------------------------------------------------
\* What was recorded by some deployment is recorded completely.
Settled(r) == /\ r.applied # NULL <=> r.rendered # NULL
              /\ r.applied # NULL <=> r.appliedService # NULL

OfService(h, s) == req[h] # NULL /\ req[h].service = s
IsSlow(h, s) == OfService(h, s) /\ req[h].op \in Slow

\* What each request knows of its service, and what stays true of it.
ReqFor(h) == req[h] # NULL =>
  LET s == req[h].service  op == req[h].op  seen == req[h].seen
  IN /\ op \in Quick => req[h].step = "store"
     /\ op # "create" => /\ seen \in Row /\ Settled(seen)
                         /\ row[s] # NULL
                         /\ Exists(s) /\ seen.applied # NULL => row[s].applied # NULL
     /\ op = "deploy" => seen.config # NULL /\ ~seen.archived
     /\ op = "archive" => ~seen.archived
     /\ op = "restore" => seen.archived
     /\ op = "benchmark" => seen.applied # NULL
ReqOK == \A h \in Handlers : ReqFor(h)

RowsOK == \A s \in Services : Exists(s) => Settled(row[s])

Same(r, seen) == /\ r.rendered = seen.rendered /\ r.applied = seen.applied
                 /\ r.appliedService = seen.appliedService /\ r.archived = seen.archived

\* A slow request that no other has met finds its service as it has seen it;
\* the others are known to have met.
Solo == \A h \in Handlers, s \in Services : IsSlow(h, s) =>
  IF req[h].alone
  THEN /\ \A g \in Handlers : IsSlow(g, s) => g = h
       /\ Exists(s) /\ Same(row[s], req[h].seen)
  ELSE s \in mixed /\ s \in disturbed

\* Traceable strengthened: also for services that were repaired, and for what
\* a benchmark has read but not yet stored.
WholeRow(r) == r.applied # NULL => r.rendered = Text(r.applied, r.appliedService)
WholeRows == \A s \in Services : Exists(s) /\ (s \notin mixed \/ s \notin disturbed) => WholeRow(row[s])
WholeSeen == \A h \in Handlers : req[h] # NULL /\ req[h].op = "benchmark" /\ req[h].service \notin mixed
                                    => WholeRow(req[h].seen)
WholeJobs == \A j \in jobs : /\ j.profile # NULL => j.profile \in profiles
                             /\ j.service \notin mixed => j.unit = Text(j.config, j.payload)

\* Where the unit file is before and after the step on the disk.
InPlace(s) ==
  /\ row[s].archived  => unit[s] = NULL /\ kept[s] = Last(s)
  /\ ~row[s].archived => unit[s] = Last(s) /\ (unit[s] = NULL => kept[s] = NULL)
Moved(h, s) ==
  CASE req[h].op = "deploy"  -> unit[s] = Render(req[h].seen)
    [] req[h].op = "delete"  -> unit[s] = NULL /\ kept[s] = NULL
    [] req[h].op = "archive" -> s \notin disturbed => unit[s] = NULL /\ kept[s] = Last(s)
    [] req[h].op = "restore" -> s \notin disturbed => unit[s] = Last(s) /\ kept[s] = NULL
AtEnds(s) == /\ row[s] = NULL => unit[s] = NULL /\ kept[s] = NULL /\ refused[s] = NULL
             /\ row[s] = GONE /\ s \notin disturbed => unit[s] = NULL /\ kept[s] = NULL
AtRest(s) == /\ Exists(s) /\ s \notin disturbed
             /\ \A h \in Handlers : IsSlow(h, s) => req[h].step = "disk"
             => InPlace(s)
Halfway(s) == \A h \in Handlers : IsSlow(h, s) /\ req[h].alone /\ req[h].step = "store" => Moved(h, s)
Files == \A s \in Services : AtEnds(s) /\ AtRest(s) /\ Halfway(s)

\* AddressUnique strengthened: what a request was allowed to store stays free,
\* or is known to be disputed.
Claims == \A h \in Handlers : req[h] # NULL /\ req[h].op \in {"create", "update", "restore"} =>
  LET a == Address(req[h].payload) IN Taken(req[h].service, a) => a \in raced

IInv == TypeOK /\ ReqOK /\ RowsOK /\ Solo /\ WholeRows /\ WholeSeen /\ WholeJobs
        /\ Files /\ Claims /\ AddressUnique


-----------------------------------------------------------------------------
(***************************************************************************)
(* What the steps do to a row.                                             *)
(***************************************************************************)
LEMMA WriteUpdated ==
  ASSUME TypeOK, ReqOK, NEW h \in Handlers, StoreUpdate(h), Exists(req[h].service)
  PROVE  \E m \in Row :
           LET s == req[h].service
           IN /\ row' = [row EXCEPT ![s] = m]
              /\ Same(m, row[s]) /\ m.config = row[s].config
<1> DEFINE s == req[h].service
           seen == req[h].seen
           p == req[h].payload
           new == [seen EXCEPT !.host = p.host, !.port = p.port, !.paths = p.paths]
           m == [f \in DOMAIN new |-> IF new[f] # seen[f] THEN new[f] ELSE row[s][f]]
<1>1. req[h] # NULL /\ req[h].op = "update"
  BY DEF StoreUpdate, Finish
<1>2. s \in Services /\ p \in Payload /\ seen \in Row /\ row[s] \in Row
  BY <1>1 DEF TypeOK, Request, ReqOK, ReqFor, Exists
<1>3. row' = [row EXCEPT ![s] = m]
  BY DEF StoreUpdate, Write
<1>4. p.host \in Hosts /\ p.port \in Ports /\ p.paths \in Paths
  BY <1>2 DEF Payload
<1>5. m = [row[s] EXCEPT !.host = IF p.host # seen.host THEN p.host ELSE @,
                         !.port = IF p.port # seen.port THEN p.port ELSE @,
                         !.paths = IF p.paths # seen.paths THEN p.paths ELSE @]
  <2> HIDE DEF s, p
  <2> QED BY <1>2 DEF Row
<1>6. m \in Row
  <2> HIDE DEF s, p, seen, m
  <2> QED BY <1>2, <1>4, <1>5 DEF Row
<1>7. Same(m, row[s]) /\ m.config = row[s].config
  <2> HIDE DEF s, p, seen, m
  <2> QED BY <1>2, <1>5 DEF Row, Same
<1> QED BY <1>3, <1>6, <1>7

\* What is stored when a service is archived: one column.
LEMMA WriteArchived ==
  ASSUME TypeOK, ReqOK, NEW h \in Handlers, StoreArchive(h), Exists(req[h].service)
  PROVE  row' = [row EXCEPT ![req[h].service].archived = TRUE]
<1> DEFINE s == req[h].service
           seen == req[h].seen
           new == [seen EXCEPT !.archived = TRUE]
           m == [f \in DOMAIN new |-> IF new[f] # seen[f] THEN new[f] ELSE row[s][f]]
<1>1. req[h] # NULL /\ req[h].op = "archive"
  BY DEF StoreArchive, Finish
<1>2. s \in Services /\ seen \in Row /\ row[s] \in Row /\ seen.archived = FALSE
  BY <1>1 DEF TypeOK, Request, ReqOK, ReqFor, Exists, Row
<1>3. row' = [row EXCEPT ![s] = m]
  BY DEF StoreArchive, Write
<1>4. m = [row[s] EXCEPT !.archived = TRUE]
  <2> HIDE DEF s
  <2> QED BY <1>2 DEF Row
<1> QED BY <1>3, <1>4

\* What is stored when it is restored: the same column.
LEMMA WriteRestored ==
  ASSUME TypeOK, ReqOK, NEW h \in Handlers, StoreRestore(h), Exists(req[h].service)
  PROVE  row' = [row EXCEPT ![req[h].service].archived = FALSE]
<1> DEFINE s == req[h].service
           seen == req[h].seen
           new == [seen EXCEPT !.archived = FALSE]
           m == [f \in DOMAIN new |-> IF new[f] # seen[f] THEN new[f] ELSE row[s][f]]
<1>1. req[h] # NULL /\ req[h].op = "restore"
  BY DEF StoreRestore, Finish
<1>2. s \in Services /\ seen \in Row /\ row[s] \in Row /\ seen.archived = TRUE
  BY <1>1 DEF TypeOK, Request, ReqOK, ReqFor, Exists, Row
<1>3. row' = [row EXCEPT ![s] = m]
  BY DEF StoreRestore, Write
<1>4. m = [row[s] EXCEPT !.archived = FALSE]
  <2> HIDE DEF s
  <2> QED BY <1>2 DEF Row
<1> QED BY <1>3, <1>4

\* A deployment writes the columns of what is applied; if nothing else has
\* changed them, to what it has rendered.
LEMMA WriteDeployed ==
  ASSUME TypeOK, ReqOK, RowsOK, NEW h \in Handlers, StoreDeploy(h), Exists(req[h].service)
  PROVE  \E m \in Row :
           LET s == req[h].service  seen == req[h].seen
           IN /\ row' = [row EXCEPT ![s] = m]
              /\ Address(m) = Address(row[s]) /\ m.archived = row[s].archived
              /\ m.config = row[s].config
              /\ Settled(m) /\ m.applied # NULL
              /\ Same(row[s], seen) => /\ m.rendered = Render(seen)
                                       /\ m.applied = seen.config
                                       /\ m.appliedService = PayloadOf(seen)
<1> DEFINE s == req[h].service
           seen == req[h].seen
           new == Recorded(seen)
           m == [f \in DOMAIN new |-> IF new[f] # seen[f] THEN new[f] ELSE row[s][f]]
<1>1. req[h] # NULL /\ req[h].op = "deploy"
  BY DEF StoreDeploy, Finish
<1>2. /\ s \in Services /\ seen \in Row /\ row[s] \in Row /\ seen.config # NULL
      /\ Settled(seen) /\ (seen.applied # NULL => row[s].applied # NULL)
  BY <1>1 DEF TypeOK, Request, ReqOK, ReqFor, Exists
<1>3. row' = [row EXCEPT ![s] = m]
  BY DEF StoreDeploy, Write
<1>4. /\ Render(seen) \in Content /\ Render(seen) # NULL
      /\ PayloadOf(seen) \in Payload /\ PayloadOf(seen) # NULL
  <2>1. Render(seen) \in Content
    BY <1>2 DEF Render, Text, Content, Row
  <2>2. PayloadOf(seen) \in Payload
    BY <1>2 DEF PayloadOf, Payload, Row
  <2> QED BY <2>1, <2>2, RecordAssumption
<1>5. Settled(row[s])
  BY <1>2 DEF RowsOK
<1>6. /\ new \in Row /\ new.host = seen.host /\ new.port = seen.port /\ new.paths = seen.paths /\ new.config = seen.config /\ new.source = seen.source
      /\ new.archived = seen.archived
      /\ new.rendered = Render(seen) /\ new.applied = seen.config
      /\ new.appliedService = PayloadOf(seen) /\ new.appliedSource = seen.source
  <2> HIDE DEF s, seen
  <2> QED BY <1>2, <1>4 DEF Recorded, Row
<1>7. /\ m \in Row /\ m.host = row[s].host /\ m.port = row[s].port /\ m.config = row[s].config /\ m.archived = row[s].archived
      /\ m.rendered = IF new.rendered # seen.rendered THEN new.rendered ELSE row[s].rendered
      /\ m.applied = IF new.applied # seen.applied THEN new.applied ELSE row[s].applied
      /\ m.appliedService = IF new.appliedService # seen.appliedService THEN new.appliedService ELSE row[s].appliedService
  <2> HIDE DEF s, seen, new
  <2> QED BY <1>2, <1>6 DEF Row
<1> HIDE DEF new, m
<1>8. Settled(m) /\ m.applied # NULL
  BY <1>2, <1>4, <1>5, <1>6, <1>7 DEF Settled
<1>9. Same(row[s], seen) => m.rendered = Render(seen) /\ m.applied = seen.config /\ m.appliedService = PayloadOf(seen)
  BY <1>6, <1>7 DEF Same
<1> QED BY <1>3, <1>7, <1>8, <1>9 DEF Address


-----------------------------------------------------------------------------
(***************************************************************************)
(* A request that is accepted: what is new, and what the others of its     *)
(* service learn.                                                          *)
(***************************************************************************)
Meets(op, s) == op \in Slow /\ \E g \in Handlers : IsSlow(g, s)

AcceptedAs(h, op, s, p, seen) ==
  /\ req[h] = NULL
  /\ req'[h] = [op |-> op, service |-> s, payload |-> p, seen |-> seen,
                step |-> IF op \in Slow THEN "disk" ELSE "store", alone |-> ~Meets(op, s)]
  /\ \A g \in Handlers \ {h} :
       req'[g] = IF op \in Slow /\ IsSlow(g, s) THEN [req[g] EXCEPT !.alone = FALSE] ELSE req[g]
  /\ mixed' = (IF Meets(op, s) THEN mixed \cup {s} ELSE mixed)
  /\ disturbed' = (IF Meets(op, s) THEN disturbed \cup {s} ELSE disturbed)
  /\ requests < MaxRequests /\ requests' = requests + 1
  /\ UNCHANGED <<row, diskVars, profiles, jobs, refused, raced, crashes>>

\* What an accepted request changes, field by field.
LEMMA Accepted ==
  ASSUME NEW h \in Handlers, NEW op, NEW s, NEW p, NEW seen, Accept(h, op, s, p, seen)
  PROVE  AcceptedAs(h, op, s, p, seen)
<1> DEFINE others == IF op \in Slow THEN Working(Slow, s) ELSE {}
<1>1. \A g \in Handlers : g \in others <=> op \in Slow /\ IsSlow(g, s)
  BY DEF Working, IsSlow, OfService
<1>2. others = {} <=> ~Meets(op, s)
  BY <1>1 DEF Working, Meets
<1>3. req' = [g \in Handlers |->
                IF g = h THEN [op |-> op, service |-> s, payload |-> p, seen |-> seen,
                               step |-> IF op \in Slow THEN "disk" ELSE "store",
                               alone |-> others = {}]
                ELSE IF g \in others THEN [req[g] EXCEPT !.alone = FALSE] ELSE req[g]]
  BY DEF Accept
<1>4. /\ mixed' = mixed \cup (IF others = {} THEN {} ELSE {s})
      /\ disturbed' = disturbed \cup (IF others = {} THEN {} ELSE {s})
  BY DEF Accept
<1> HIDE DEF others
<1>5. (others = {}) = ~Meets(op, s)
  BY <1>2 DEF Meets
<1>6. req'[h] = [op |-> op, service |-> s, payload |-> p, seen |-> seen,
                 step |-> IF op \in Slow THEN "disk" ELSE "store", alone |-> ~Meets(op, s)]
  BY <1>3, <1>5
<1>7. \A g \in Handlers \ {h} :
        req'[g] = IF op \in Slow /\ IsSlow(g, s) THEN [req[g] EXCEPT !.alone = FALSE] ELSE req[g]
  BY <1>1, <1>3
<1>8. req[h] = NULL /\ requests < MaxRequests /\ requests' = requests + 1
      /\ UNCHANGED <<row, diskVars, profiles, jobs, refused, raced, crashes>>
  BY DEF Accept
<1>9. /\ mixed' = (IF Meets(op, s) THEN mixed \cup {s} ELSE mixed)
      /\ disturbed' = (IF Meets(op, s) THEN disturbed \cup {s} ELSE disturbed)
  BY <1>2, <1>4
<1> QED BY <1>6, <1>7, <1>8, <1>9 DEF AcceptedAs


-----------------------------------------------------------------------------
\* A request that is accepted is one, and only it and history change.
LEMMA AcceptTypes ==
  ASSUME TypeOK, NEW h \in Handlers, NEW op \in Slow \cup Quick, NEW s \in Services, NEW p \in Payload,
         NEW seen \in Row \cup {NULL}, Accept(h, op, s, p, seen)
  PROVE  TypeOK'
<1>0. AcceptedAs(h, op, s, p, seen)
  BY Accepted
<1>1. req' \in [Handlers -> Request \cup {NULL}]
  <2>1. ASSUME NEW g \in Handlers PROVE req'[g] \in Request \cup {NULL}
    <3>1. CASE g = h
      <4>1. PICK b \in BOOLEAN : b = ~Meets(op, s)
        BY DEF Meets
      <4>2. PICK st \in {"disk", "store"} : st = IF op \in Slow THEN "disk" ELSE "store"
        OBVIOUS
      <4>3. req'[h] = [op |-> op, service |-> s, payload |-> p, seen |-> seen, step |-> st, alone |-> b]
        BY <1>0, <4>1, <4>2 DEF AcceptedAs
      <4> QED BY <3>1, <4>3 DEF Request
    <3>2. CASE g # h
      <4>1. req'[g] = req[g] \/ (req[g] # NULL /\ req'[g] = [req[g] EXCEPT !.alone = FALSE])
        <5>1. CASE op \in Slow /\ IsSlow(g, s)
          BY <1>0, <3>2, <5>1 DEF AcceptedAs, IsSlow, OfService
        <5>2. CASE ~(op \in Slow /\ IsSlow(g, s))
          BY <1>0, <3>2, <5>2 DEF AcceptedAs, IsSlow, OfService
        <5> QED BY <5>1, <5>2
      <4>2. req[g] \in Request \cup {NULL}
        BY DEF TypeOK
      <4>3. req[g] \in Request => [req[g] EXCEPT !.alone = FALSE] \in Request
        BY DEF Request
      <4> QED BY <4>1, <4>2, <4>3
    <3> QED BY <3>1, <3>2
  <2>2. req' = [g \in Handlers |-> req'[g]]
    BY DEF Accept
  <2> QED BY <2>1, <2>2
<1>2. mixed' \subseteq Services /\ disturbed' \subseteq Services
  BY <1>0 DEF AcceptedAs, TypeOK
<1>3. requests' \in 0..MaxRequests
  BY <1>0 DEF AcceptedAs, TypeOK
<1> QED BY <1>1, <1>2, <1>3, <1>0 DEF AcceptedAs, TypeOK, diskVars

\* Types are kept.
LEMMA TypeStep ==
  ASSUME TypeOK, ReqOK, RowsOK, Next PROVE TypeOK'
<1>0. ASSUME NEW s \in Services, Exists(s) PROVE row[s] \in Row
  BY <1>0 DEF TypeOK, Exists
<1>1. ASSUME NEW p \in Profiles, CreateProfile(p) PROVE TypeOK'
  BY <1>1 DEF CreateProfile, TypeOK, diskVars, history, budgets, Finish
<1>2. ASSUME NEW p \in Profiles, DeleteProfile(p) PROVE TypeOK'
  BY <1>2 DEF DeleteProfile, TypeOK, diskVars, history, budgets, Finish
<1>3. ASSUME NEW p \in Profiles, NEW s \in Services, NEW c \in Configs, SelectProfile(s, p, c) PROVE TypeOK'
  <2>1. row[s] \in Row
    BY <1>3, <1>0 DEF SelectProfile
  <2>2. [row[s] EXCEPT !.config = c, !.source = p] \in Row
    BY <2>1 DEF Row
  <2>3. row' = [row EXCEPT ![s] = [row[s] EXCEPT !.config = c, !.source = p]]
    BY <1>3 DEF SelectProfile
  <2> QED BY <1>3, <2>2, <2>3 DEF SelectProfile, TypeOK, diskVars, history, budgets
<1>4. ASSUME NEW s \in Services, NEW c \in Configs, UpdateLaunchConfig(s, c) PROVE TypeOK'
  BY <1>4, <1>0 DEF UpdateLaunchConfig, Exists, Row, TypeOK, diskVars, history, budgets
<1>5. ASSUME NEW h \in Handlers, NEW s \in Services, NEW p \in Forms, Create(h, s, p) PROVE TypeOK'
  BY <1>5, AcceptTypes DEF Create, Quick
<1>6. ASSUME NEW h \in Handlers, NEW s \in Services, NEW p \in Forms, Update(h, s, p) PROVE TypeOK'
  BY <1>6, AcceptTypes DEF Update, Exists, TypeOK, Quick
<1>7. ASSUME NEW h \in Handlers, NEW s \in Services, NEW op \in Slow \cup {"benchmark"}, Begin(h, op, s) PROVE TypeOK'
  <2>1. Exists(s)
    BY <1>7 DEF Begin, Allowed, Deployable, Measurable, Restorable, Live, Slow
  <2>2. row[s] \in Row /\ PayloadOf(row[s]) \in Payload
    BY <2>1 DEF Exists, TypeOK, Row, PayloadOf, Payload
  <2> QED BY <1>7, <2>2, AcceptTypes DEF Begin, Quick
<1>8. ASSUME NEW h \in Handlers, Disk(h) PROVE TypeOK'
  <2>1. req[h] \in Request /\ req[h].service \in Services
    BY <1>8 DEF Disk, TypeOK, Request
  <2>2. req' \in [Handlers -> Request \cup {NULL}]
    BY <1>8, <2>1 DEF Disk, TypeOK, Request
  <2>3. req[h].op \in {"deploy", "archive", "restore", "delete"}
    BY <1>8, <2>1 DEF Disk, ReqOK, ReqFor, TypeOK, Request, Quick, Slow
  <2>4. req[h].op = "deploy" => Render(req[h].seen) \in Content
    BY <1>8, <2>1 DEF Disk, ReqOK, ReqFor, Row, Render, Text, Content
  <2>5. req[h].seen \in Row
    BY <1>8, <2>1, <2>3 DEF Disk, ReqOK, ReqFor
  <2>6. unit' \in [Services -> Content \cup {NULL}] /\ kept' \in [Services -> Content \cup {NULL}]
    <3>1. CASE req[h].op = "deploy"
      BY <1>8, <2>1, <2>4, <3>1 DEF Disk, TypeOK
    <3>2. CASE req[h].op = "archive"
      BY <1>8, <2>1, <3>2 DEF Disk, TypeOK, diskVars
    <3>3. CASE req[h].op = "restore"
      <4>1. req[h].seen.rendered \in Content \cup {NULL}
        BY <2>5 DEF Row
      <4> QED BY <1>8, <2>1, <3>3, <4>1 DEF Disk, TypeOK, diskVars
    <3>4. CASE req[h].op = "delete"
      BY <1>8, <2>1, <3>4 DEF Disk, TypeOK
    <3> QED BY <2>3, <3>1, <3>2, <3>3, <3>4
  <2> QED BY <1>8, <2>2, <2>6 DEF Disk, TypeOK, history, budgets
<1>9. ASSUME NEW h \in Handlers, DiskFails(h) PROVE TypeOK'
  BY <1>9 DEF DiskFails, TypeOK, diskVars, history, budgets, Finish
<1>10. ASSUME NEW h \in Handlers, StoreCreate(h) PROVE TypeOK'
  <2>1. req[h].service \in Services /\ req[h].payload \in Payload
    BY <1>10 DEF StoreCreate, Finish, TypeOK, Request
  <2>2. NewRow(req[h].payload) \in Row /\ Address(req[h].payload) \in Addresses
    BY <2>1 DEF NewRow, Row, Payload, Address, Addresses
  <2> QED BY <1>10, <2>1, <2>2 DEF StoreCreate, Finish, Claim, TypeOK, diskVars, history, budgets
<1>11. ASSUME NEW h \in Handlers, StoreUpdate(h) PROVE TypeOK'
  <2>1. req[h] # NULL /\ req[h].service \in Services /\ req[h].payload \in Payload
    BY <1>11 DEF StoreUpdate, Finish, TypeOK, Request
  <2>2. row' \in [Services -> Row \cup {NULL, GONE}]
    <3>1. CASE Exists(req[h].service)
      <4>1. PICK m \in Row : row' = [row EXCEPT ![req[h].service] = m]
        BY <1>11, <3>1, WriteUpdated
      <4> QED BY <2>1, <4>1 DEF TypeOK
    <3>2. CASE ~Exists(req[h].service)
      BY <1>11, <3>2 DEF StoreUpdate, Write, TypeOK
    <3> QED BY <3>1, <3>2
  <2>3. Address(req[h].payload) \in Addresses
    BY <2>1 DEF Payload, Address, Addresses
  <2>4. Exists(req[h].service) => Address(row'[req[h].service]) \in Addresses
    <3> SUFFICES ASSUME Exists(req[h].service) PROVE Address(row'[req[h].service]) \in Addresses
      OBVIOUS
    <3>1. PICK m \in Row : row' = [row EXCEPT ![req[h].service] = m]
      BY <1>11, WriteUpdated
    <3>2. row'[req[h].service] = m
      BY <2>1, <3>1 DEF TypeOK
    <3> QED BY <3>2 DEF Row, Address, Addresses
  <2>5. raced' \subseteq Addresses
    BY <1>11, <2>3, <2>4 DEF StoreUpdate, Claim, TypeOK
  <2> QED BY <1>11, <2>1, <2>2, <2>5 DEF StoreUpdate, Finish, TypeOK, diskVars, history, budgets
<1>12. ASSUME NEW h \in Handlers, StoreDeploy(h) PROVE TypeOK'
  <2>1. req[h] # NULL /\ req[h].service \in Services
    BY <1>12 DEF StoreDeploy, Finish, TypeOK, Request
  <2>2. row' \in [Services -> Row \cup {NULL, GONE}]
    <3>1. CASE Exists(req[h].service)
      <4>1. PICK m \in Row : row' = [row EXCEPT ![req[h].service] = m]
        BY <1>12, <3>1, WriteDeployed
      <4> QED BY <2>1, <4>1 DEF TypeOK
    <3>2. CASE ~Exists(req[h].service)
      BY <1>12, <3>2 DEF StoreDeploy, Write, TypeOK
    <3> QED BY <3>1, <3>2
  <2> QED BY <1>12, <2>1, <2>2 DEF StoreDeploy, Finish, Repair, TypeOK, diskVars, history, budgets
<1>13. ASSUME NEW h \in Handlers, DeployRefused(h) PROVE TypeOK'
  <2>1. req[h] # NULL /\ req[h].service \in Services /\ req[h].seen \in Row /\ req[h].seen.config # NULL
    BY <1>13 DEF DeployRefused, Finish, TypeOK, Request, ReqOK, ReqFor
  <2>2. Render(req[h].seen) \in Content
    BY <2>1 DEF Row, Render, Text, Content
  <2> QED BY <1>13, <2>1, <2>2 DEF DeployRefused, Finish, TypeOK, diskVars, history, budgets
<1>14. ASSUME NEW h \in Handlers, StoreArchive(h) PROVE TypeOK'
  <2>1. req[h] # NULL /\ req[h].service \in Services
    BY <1>14 DEF StoreArchive, Finish, TypeOK, Request
  <2>2. row' \in [Services -> Row \cup {NULL, GONE}]
    <3>1. CASE Exists(req[h].service)
      <4>1. row[req[h].service] \in Row
        BY <2>1, <3>1 DEF TypeOK, Exists
      <4>2. [row[req[h].service] EXCEPT !.archived = TRUE] \in Row
        BY <4>1 DEF Row
      <4>3. row' = [row EXCEPT ![req[h].service] = [row[req[h].service] EXCEPT !.archived = TRUE]]
        BY <1>14, <3>1, WriteArchived
      <4> QED BY <4>2, <4>3 DEF TypeOK
    <3>2. CASE ~Exists(req[h].service)
      BY <1>14, <3>2 DEF StoreArchive, Write, TypeOK
    <3> QED BY <3>1, <3>2
  <2> QED BY <1>14, <2>1, <2>2 DEF StoreArchive, Finish, Claim, TypeOK, diskVars, history, budgets
<1>15. ASSUME NEW h \in Handlers, StoreRestore(h) PROVE TypeOK'
  <2>1. req[h] # NULL /\ req[h].service \in Services
    BY <1>15 DEF StoreRestore, Finish, TypeOK, Request
  <2>2. row' \in [Services -> Row \cup {NULL, GONE}]
    <3>1. CASE Exists(req[h].service)
      <4>1. row[req[h].service] \in Row
        BY <2>1, <3>1 DEF TypeOK, Exists
      <4>2. [row[req[h].service] EXCEPT !.archived = FALSE] \in Row
        BY <4>1 DEF Row
      <4>3. row' = [row EXCEPT ![req[h].service] = [row[req[h].service] EXCEPT !.archived = FALSE]]
        BY <1>15, <3>1, WriteRestored
      <4> QED BY <4>2, <4>3 DEF TypeOK
    <3>2. CASE ~Exists(req[h].service)
      BY <1>15, <3>2 DEF StoreRestore, Write, TypeOK
    <3> QED BY <3>1, <3>2
  <2>3. Exists(req[h].service) => Address(row[req[h].service]) \in Addresses
    BY <2>1 DEF TypeOK, Exists, Row, Address, Addresses
  <2>4. Address(req[h].seen) \in Addresses
    BY <1>15 DEF StoreRestore, Finish, ReqOK, ReqFor, Row, Address, Addresses
  <2> QED BY <2>3, <2>4, <1>15, <2>1, <2>2 DEF StoreRestore, Finish, Claim, TypeOK, diskVars, history, budgets
<1>16. ASSUME NEW h \in Handlers, StoreDelete(h) PROVE TypeOK'
  BY <1>16 DEF StoreDelete, Finish, Repair, Request, TypeOK, diskVars, history, budgets
<1>17. ASSUME NEW h \in Handlers, StoreBenchmark(h) PROVE TypeOK'
  <2>1. /\ req[h].service \in Services /\ req[h].seen \in Row /\ Settled(req[h].seen)
        /\ req[h].seen.applied # NULL
    BY <1>17 DEF StoreBenchmark, Finish, TypeOK, Request, ReqOK, ReqFor
  <2>2. [service |-> req[h].service, profile |-> req[h].seen.appliedSource, unit |-> req[h].seen.rendered,
         config |-> req[h].seen.applied, payload |-> req[h].seen.appliedService]
          \in [service : Services, profile : Profiles \cup {NULL}, unit : Content, config : Configs, payload : Payload]
    BY <2>1 DEF Settled, Row
  <2>3. jobs' \subseteq [service : Services, profile : Profiles \cup {NULL}, unit : Content, config : Configs, payload : Payload]
    BY <1>17, <2>2 DEF StoreBenchmark, TypeOK
  <2> QED BY <1>17, <2>3 DEF StoreBenchmark, Finish, TypeOK, diskVars, history, budgets
<1>18. ASSUME NEW H \in SUBSET Handlers, CutOff(H) PROVE TypeOK'
  <2>1. req' \in [Handlers -> Request \cup {NULL}] /\ disturbed' \subseteq Services
    BY <1>18 DEF CutOff, TypeOK
  <2>2. crashes' \in 0..MaxCrashes
    BY <1>18 DEF CutOff, TypeOK
  <2> QED BY <1>18, <2>1, <2>2 DEF CutOff, TypeOK, diskVars
<1>19. ASSUME NEW h \in Handlers, CommitFails(h) PROVE TypeOK'
  BY <1>18, <1>19 DEF CommitFails
<1>20. ASSUME Crash PROVE TypeOK'
  BY <1>18, <1>20 DEF Crash
<1> QED BY <1>1, <1>2, <1>3, <1>4, <1>5, <1>6, <1>7, <1>8, <1>9, <1>10, <1>11, <1>12, <1>13, <1>14, <1>15, <1>16, <1>17, <1>19, <1>20 DEF Next, Store


-----------------------------------------------------------------------------
(***************************************************************************)
(* What no step does to a row: it never disappears, a deleted one does not *)
(* come back, and what was deployed once stays so.                         *)
(***************************************************************************)
RowKept(x) == /\ row[x] # NULL => row'[x] # NULL
              /\ row[x] # NULL /\ Exists(x)' => Exists(x) /\ (row[x].applied # NULL => row'[x].applied # NULL)
              /\ Exists(x)' => Settled(row'[x])

\* Every step keeps the rows in this sense.
LEMMA RowsKept ==
  ASSUME TypeOK, ReqOK, RowsOK, Next PROVE \A x \in Services : RowKept(x)
<1>1. ASSUME NEW p \in Profiles, CreateProfile(p) PROVE \A x \in Services : RowKept(x)
  BY <1>1 DEF CreateProfile, RowKept, RowsOK, Exists, Finish, diskVars
<1>2. ASSUME NEW p \in Profiles, DeleteProfile(p) PROVE \A x \in Services : RowKept(x)
  BY <1>2 DEF DeleteProfile, RowKept, RowsOK, Exists, Finish, diskVars
<1>3. ASSUME NEW p \in Profiles, NEW s \in Services, NEW c \in Configs, SelectProfile(s, p, c) PROVE \A x \in Services : RowKept(x)
  <2>1. row[s] \in Row /\ Settled(row[s])
    BY <1>3 DEF SelectProfile, Exists, TypeOK, RowsOK
  <2> DEFINE m == [row[s] EXCEPT !.config = c, !.source = p]
  <2>2. m \in Row /\ m.applied = row[s].applied /\ Settled(m)
    BY <2>1 DEF Row, Settled
  <2>3. row' = [row EXCEPT ![s] = m]
    BY <1>3 DEF SelectProfile
  <2> HIDE DEF m
  <2> QED BY <1>3, <2>1, <2>2, <2>3, RecordAssumption DEF SelectProfile, RowKept, RowsOK, TypeOK, Exists
<1>4. ASSUME NEW s \in Services, NEW c \in Configs, UpdateLaunchConfig(s, c) PROVE \A x \in Services : RowKept(x)
  <2>1. row[s] \in Row /\ Settled(row[s])
    BY <1>4 DEF UpdateLaunchConfig, Exists, TypeOK, RowsOK
  <2> DEFINE m == [row[s] EXCEPT !.config = c]
  <2>2. m \in Row /\ m.applied = row[s].applied /\ Settled(m)
    BY <2>1 DEF Row, Settled
  <2>3. row' = [row EXCEPT ![s] = m]
    BY <1>4 DEF UpdateLaunchConfig
  <2> HIDE DEF m
  <2> QED BY <1>4, <2>1, <2>2, <2>3, RecordAssumption DEF UpdateLaunchConfig, RowKept, RowsOK, TypeOK, Exists
<1>5. ASSUME NEW h \in Handlers, NEW s \in Services, NEW p \in Forms, Create(h, s, p) PROVE \A x \in Services : RowKept(x)
  BY <1>5 DEF Create, Accept, RowKept, RowsOK, Exists
<1>6. ASSUME NEW h \in Handlers, NEW s \in Services, NEW p \in Forms, Update(h, s, p) PROVE \A x \in Services : RowKept(x)
  BY <1>6 DEF Update, Accept, RowKept, RowsOK, Exists
<1>7. ASSUME NEW h \in Handlers, NEW s \in Services, NEW op \in Slow \cup {"benchmark"}, Begin(h, op, s) PROVE \A x \in Services : RowKept(x)
  BY <1>7 DEF Begin, Accept, RowKept, RowsOK, Exists
<1>8. ASSUME NEW h \in Handlers, Disk(h) PROVE \A x \in Services : RowKept(x)
  BY <1>8 DEF Disk, RowKept, RowsOK, Exists, Finish, diskVars
<1>9. ASSUME NEW h \in Handlers, DiskFails(h) PROVE \A x \in Services : RowKept(x)
  BY <1>9 DEF DiskFails, RowKept, RowsOK, Exists, Finish, diskVars
<1>10. ASSUME NEW h \in Handlers, StoreCreate(h) PROVE \A x \in Services : RowKept(x)
  <2>1. req[h].service \in Services /\ Settled(NewRow(req[h].payload))
    BY <1>10 DEF StoreCreate, Finish, TypeOK, Request, NewRow, Settled
  <2> QED BY <1>10, <2>1 DEF StoreCreate, RowKept, RowsOK, TypeOK, Exists
<1>11. ASSUME NEW h \in Handlers, StoreUpdate(h) PROVE \A x \in Services : RowKept(x)
  <2> DEFINE t == req[h].service
  <2>1. req[h] # NULL /\ t \in Services
    BY <1>11 DEF StoreUpdate, Finish, TypeOK, Request
  <2>2. CASE Exists(t)
    <3>1. row[t] \in Row /\ Settled(row[t])
      BY <2>1, <2>2 DEF Exists, TypeOK, RowsOK
    <3>2. PICK m \in Row : row' = [row EXCEPT ![t] = m] /\ Same(m, row[t])
      BY <1>11, <2>2, WriteUpdated
    <3>3. m.applied = row[t].applied /\ Settled(m)
      BY <3>1, <3>2 DEF Same, Settled
    <3> HIDE DEF t
    <3> QED BY <2>1, <3>1, <3>2, <3>3, RecordAssumption DEF RowKept, RowsOK, TypeOK, Exists
  <2>3. CASE ~Exists(t)
    BY <1>11, <2>3 DEF StoreUpdate, Write, RowKept, RowsOK, Exists
  <2> QED BY <2>2, <2>3
<1>12. ASSUME NEW h \in Handlers, StoreDeploy(h) PROVE \A x \in Services : RowKept(x)
  <2> DEFINE t == req[h].service
  <2>1. req[h] # NULL /\ t \in Services
    BY <1>12 DEF StoreDeploy, Finish, TypeOK, Request
  <2>2. CASE Exists(t)
    <3>1. row[t] \in Row /\ Settled(row[t])
      BY <2>1, <2>2 DEF Exists, TypeOK, RowsOK
    <3>0. PICK m \in Row : row' = [row EXCEPT ![t] = m] /\ Settled(m) /\ m.applied # NULL
      BY <1>12, <2>2, WriteDeployed
    <3>2. row' = [row EXCEPT ![t] = m]
      BY <3>0
    <3>3. m \in Row /\ m.applied # NULL /\ Settled(m)
      BY <3>0
    <3> HIDE DEF t
    <3> QED BY <2>1, <3>1, <3>2, <3>3, RecordAssumption DEF RowKept, RowsOK, TypeOK, Exists
  <2>3. CASE ~Exists(t)
    BY <1>12, <2>3 DEF StoreDeploy, Write, RowKept, RowsOK, Exists
  <2> QED BY <2>2, <2>3
<1>13. ASSUME NEW h \in Handlers, DeployRefused(h) PROVE \A x \in Services : RowKept(x)
  BY <1>13 DEF DeployRefused, RowKept, RowsOK, Exists, Finish, diskVars
<1>14. ASSUME NEW h \in Handlers, StoreArchive(h) PROVE \A x \in Services : RowKept(x)
  <2> DEFINE t == req[h].service
  <2>1. req[h] # NULL /\ t \in Services
    BY <1>14 DEF StoreArchive, Finish, TypeOK, Request
  <2>2. CASE Exists(t)
    <3>1. row[t] \in Row /\ Settled(row[t])
      BY <2>1, <2>2 DEF Exists, TypeOK, RowsOK
    <3> DEFINE m == [row[t] EXCEPT !.archived = TRUE]
    <3>2. row' = [row EXCEPT ![t] = m]
      BY <1>14, <2>2, WriteArchived
    <3>3. m \in Row /\ m.applied = row[t].applied /\ Settled(m)
      BY <3>1 DEF Row, Settled
    <3> HIDE DEF m
    <3> HIDE DEF t
    <3> QED BY <2>1, <3>1, <3>2, <3>3, RecordAssumption DEF RowKept, RowsOK, TypeOK, Exists
  <2>3. CASE ~Exists(t)
    BY <1>14, <2>3 DEF StoreArchive, Write, RowKept, RowsOK, Exists
  <2> QED BY <2>2, <2>3
<1>15. ASSUME NEW h \in Handlers, StoreRestore(h) PROVE \A x \in Services : RowKept(x)
  <2> DEFINE t == req[h].service
  <2>1. req[h] # NULL /\ t \in Services
    BY <1>15 DEF StoreRestore, Finish, TypeOK, Request
  <2>2. CASE Exists(t)
    <3>1. row[t] \in Row /\ Settled(row[t])
      BY <2>1, <2>2 DEF Exists, TypeOK, RowsOK
    <3> DEFINE m == [row[t] EXCEPT !.archived = FALSE]
    <3>2. row' = [row EXCEPT ![t] = m]
      BY <1>15, <2>2, WriteRestored
    <3>3. m \in Row /\ m.applied = row[t].applied /\ Settled(m)
      BY <3>1 DEF Row, Settled
    <3> HIDE DEF m
    <3> HIDE DEF t
    <3> QED BY <2>1, <3>1, <3>2, <3>3, RecordAssumption DEF RowKept, RowsOK, TypeOK, Exists
  <2>3. CASE ~Exists(t)
    BY <1>15, <2>3 DEF StoreRestore, Write, RowKept, RowsOK, Exists
  <2> QED BY <2>2, <2>3
<1>16. ASSUME NEW h \in Handlers, StoreDelete(h) PROVE \A x \in Services : RowKept(x)
  <2>1. req[h].service \in Services
    BY <1>16 DEF StoreDelete, Finish, TypeOK, Request
  <2> QED BY <1>16, <2>1 DEF StoreDelete, RowKept, RowsOK, TypeOK, Exists
<1>17. ASSUME NEW h \in Handlers, StoreBenchmark(h) PROVE \A x \in Services : RowKept(x)
  BY <1>17 DEF StoreBenchmark, RowKept, RowsOK, Exists, Finish, diskVars
<1>18. ASSUME NEW H \in SUBSET Handlers, CutOff(H) PROVE \A x \in Services : RowKept(x)
  BY <1>18 DEF CutOff, RowKept, RowsOK, Exists, Finish, diskVars
<1>19. ASSUME NEW h \in Handlers, CommitFails(h) PROVE \A x \in Services : RowKept(x)
  BY <1>18, <1>19 DEF CommitFails
<1>20. ASSUME Crash PROVE \A x \in Services : RowKept(x)
  BY <1>18, <1>20 DEF Crash
<1> QED BY <1>1, <1>2, <1>3, <1>4, <1>5, <1>6, <1>7, <1>8, <1>9, <1>10, <1>11, <1>12, <1>13, <1>14, <1>15, <1>16, <1>17, <1>19, <1>20 DEF Next, Store


-----------------------------------------------------------------------------
(***************************************************************************)
(* What the steps do to the requests that are already there.               *)
(***************************************************************************)
ReqKept(g) == req'[g] # NULL =>
  /\ req[g] # NULL
  /\ req'[g].op = req[g].op /\ req'[g].service = req[g].service
  /\ req'[g].payload = req[g].payload /\ req'[g].seen = req[g].seen
  /\ req'[g].step \in {req[g].step, "store"}

\* A request that is kept stays all right.
LEMMA KeptIsOK ==
  ASSUME TypeOK, ReqOK, \A x \in Services : RowKept(x), NEW g \in Handlers, ReqKept(g)
  PROVE  ReqFor(g)'
<1> SUFFICES ASSUME req'[g] # NULL PROVE ReqFor(g)'
  BY DEF ReqFor
<1> DEFINE s == req[g].service  op == req[g].op  seen == req[g].seen
<1>1. /\ req[g] # NULL /\ s \in Services
      /\ req'[g].op = op /\ req'[g].service = s /\ req'[g].seen = seen
      /\ req'[g].step \in {req[g].step, "store"}
  BY DEF ReqKept, TypeOK, Request
<1>2. ReqFor(g)
  BY DEF ReqOK, ReqFor
<1>3. RowKept(s)
  BY <1>1
<1>4. op # "create" => /\ seen \in Row /\ Settled(seen) /\ row'[s] # NULL
                       /\ Exists(s)' /\ seen.applied # NULL => row'[s].applied # NULL
  BY <1>1, <1>2, <1>3 DEF ReqFor, RowKept
<1> HIDE DEF s, op, seen
<1> QED BY <1>1, <1>2, <1>4 DEF ReqFor, s, op, seen, Settled

\* An accepted request is all right, and so are the others.
LEMMA AcceptedIsOK ==
  ASSUME TypeOK, ReqOK, \A x \in Services : RowKept(x), NEW h \in Handlers, NEW op, NEW s, NEW p, NEW seen,
         Accept(h, op, s, p, seen),
         op \in Quick \cup Slow, s \in Services,
         op # "create" => seen \in Row /\ Settled(seen) /\ Exists(s) /\ seen = row[s],
         op = "deploy" => seen.config # NULL /\ ~seen.archived,
         op = "archive" => ~seen.archived,
         op = "restore" => seen.archived,
         op = "benchmark" => seen.applied # NULL
  PROVE  \A g \in Handlers : ReqFor(g)'
<1>1. AcceptedAs(h, op, s, p, seen)
  BY Accepted
<1>2. ReqFor(h)'
  <2>1. /\ req'[h].op = op /\ req'[h].service = s /\ req'[h].seen = seen
        /\ op \in Quick => req'[h].step = "store"
    BY <1>1 DEF AcceptedAs, Quick, Slow
  <2>2. row' = row
    BY <1>1 DEF AcceptedAs
  <2> QED BY <2>1, <2>2 DEF ReqFor, Exists, Settled
<1>3. ASSUME NEW g \in Handlers \ {h} PROVE ReqFor(g)'
  <2>1. req'[g] = req[g] \/ (req[g] # NULL /\ req[g] \in Request /\ req'[g] = [req[g] EXCEPT !.alone = FALSE])
    <3>1. CASE op \in Slow /\ IsSlow(g, s)
      BY <1>1, <3>1 DEF AcceptedAs, IsSlow, OfService, TypeOK
    <3>2. CASE ~(op \in Slow /\ IsSlow(g, s))
      BY <1>1, <3>2 DEF AcceptedAs, IsSlow, OfService
    <3> QED BY <3>1, <3>2
  <2>2. ReqKept(g)
    BY <2>1 DEF ReqKept, Request
  <2> QED BY <2>2, KeptIsOK
<1> QED BY <1>2, <1>3

\* What is known of the requests stays true.
LEMMA ReqStep ==
  ASSUME TypeOK, ReqOK, RowsOK, Next PROVE ReqOK'
<1>0. \A x \in Services : RowKept(x)
  BY RowsKept
<1>1. ASSUME NEW p \in Profiles, CreateProfile(p) PROVE ReqOK'
  <2>1. ASSUME NEW g \in Handlers PROVE ReqKept(g)
    BY <1>1 DEF CreateProfile, ReqKept, Finish
  <2> QED BY <1>0, <2>1, KeptIsOK DEF ReqOK, ReqFor
<1>2. ASSUME NEW p \in Profiles, DeleteProfile(p) PROVE ReqOK'
  <2>1. ASSUME NEW g \in Handlers PROVE ReqKept(g)
    BY <1>2 DEF DeleteProfile, ReqKept, Finish
  <2> QED BY <1>0, <2>1, KeptIsOK DEF ReqOK, ReqFor
<1>3. ASSUME NEW p \in Profiles, NEW s \in Services, NEW c \in Configs, SelectProfile(s, p, c) PROVE ReqOK'
  <2>1. ASSUME NEW g \in Handlers PROVE ReqKept(g)
    BY <1>3 DEF SelectProfile, ReqKept, Finish
  <2> QED BY <1>0, <2>1, KeptIsOK DEF ReqOK, ReqFor
<1>4. ASSUME NEW s \in Services, NEW c \in Configs, UpdateLaunchConfig(s, c) PROVE ReqOK'
  <2>1. ASSUME NEW g \in Handlers PROVE ReqKept(g)
    BY <1>4 DEF UpdateLaunchConfig, ReqKept, Finish
  <2> QED BY <1>0, <2>1, KeptIsOK DEF ReqOK, ReqFor
<1>5. ASSUME NEW h \in Handlers, NEW s \in Services, NEW p \in Forms, Create(h, s, p) PROVE ReqOK'
  <2>1. \A g \in Handlers : ReqFor(g)'
    BY <1>5, <1>0, AcceptedIsOK DEF Create, Quick
  <2> QED BY <2>1 DEF ReqOK, ReqFor
<1>6. ASSUME NEW h \in Handlers, NEW s \in Services, NEW p \in Forms, Update(h, s, p) PROVE ReqOK'
  <2>1. Exists(s) /\ row[s] \in Row /\ Settled(row[s])
    BY <1>6 DEF Update, Exists, TypeOK, RowsOK
  <2>2. \A g \in Handlers : ReqFor(g)'
    BY <1>6, <1>0, <2>1, AcceptedIsOK DEF Update, Quick
  <2> QED BY <2>2 DEF ReqOK, ReqFor
<1>7. ASSUME NEW h \in Handlers, NEW s \in Services, NEW op \in Slow \cup {"benchmark"}, Begin(h, op, s) PROVE ReqOK'
  <2>1. Exists(s) /\ row[s] \in Row /\ Settled(row[s])
    BY <1>7 DEF Begin, Allowed, Deployable, Measurable, Restorable, Live, Slow, Exists, TypeOK, RowsOK
  <2>2. /\ op = "deploy" => row[s].config # NULL /\ ~row[s].archived
        /\ op = "archive" => ~row[s].archived
        /\ op = "restore" => row[s].archived
        /\ op = "benchmark" => row[s].applied # NULL
    BY <1>7 DEF Begin, Allowed, Deployable, Measurable, Restorable, Live
  <2>3. op \in Quick \cup Slow /\ op # "create"
    BY DEF Quick, Slow
  <2>4. Accept(h, op, s, PayloadOf(row[s]), row[s])
    BY <1>7 DEF Begin
  <2>5. \A g \in Handlers : ReqFor(g)'
    BY <1>0, <2>1, <2>2, <2>3, <2>4, AcceptedIsOK
  <2> QED BY <2>5 DEF ReqOK, ReqFor
<1>8. ASSUME NEW h \in Handlers, Disk(h) PROVE ReqOK'
  <2>1. ASSUME NEW g \in Handlers PROVE ReqKept(g)
    <3>1. req[h] \in Request /\ req' = [req EXCEPT ![h] = [req[h] EXCEPT !.step = "store"]]
      BY <1>8 DEF Disk, TypeOK
    <3>2. CASE g = h
      BY <1>8, <3>1, <3>2 DEF Disk, ReqKept, Request, TypeOK
    <3>3. CASE g # h
      BY <3>1, <3>3 DEF ReqKept
    <3> QED BY <3>2, <3>3
  <2> QED BY <1>0, <2>1, KeptIsOK DEF ReqOK, ReqFor
<1>9. ASSUME NEW h \in Handlers, DiskFails(h) PROVE ReqOK'
  <2>1. ASSUME NEW g \in Handlers PROVE ReqKept(g)
    BY <1>9 DEF DiskFails, ReqKept, Finish
  <2> QED BY <1>0, <2>1, KeptIsOK DEF ReqOK, ReqFor
<1>10. ASSUME NEW h \in Handlers, StoreCreate(h) PROVE ReqOK'
  <2>1. ASSUME NEW g \in Handlers PROVE ReqKept(g)
    BY <1>10 DEF StoreCreate, ReqKept, Finish
  <2> QED BY <1>0, <2>1, KeptIsOK DEF ReqOK, ReqFor
<1>11. ASSUME NEW h \in Handlers, StoreUpdate(h) PROVE ReqOK'
  <2>1. ASSUME NEW g \in Handlers PROVE ReqKept(g)
    BY <1>11 DEF StoreUpdate, ReqKept, Finish
  <2> QED BY <1>0, <2>1, KeptIsOK DEF ReqOK, ReqFor
<1>12. ASSUME NEW h \in Handlers, StoreDeploy(h) PROVE ReqOK'
  <2>1. ASSUME NEW g \in Handlers PROVE ReqKept(g)
    BY <1>12 DEF StoreDeploy, ReqKept, Finish
  <2> QED BY <1>0, <2>1, KeptIsOK DEF ReqOK, ReqFor
<1>13. ASSUME NEW h \in Handlers, DeployRefused(h) PROVE ReqOK'
  <2>1. ASSUME NEW g \in Handlers PROVE ReqKept(g)
    BY <1>13 DEF DeployRefused, ReqKept, Finish
  <2> QED BY <1>0, <2>1, KeptIsOK DEF ReqOK, ReqFor
<1>14. ASSUME NEW h \in Handlers, StoreArchive(h) PROVE ReqOK'
  <2>1. ASSUME NEW g \in Handlers PROVE ReqKept(g)
    BY <1>14 DEF StoreArchive, ReqKept, Finish
  <2> QED BY <1>0, <2>1, KeptIsOK DEF ReqOK, ReqFor
<1>15. ASSUME NEW h \in Handlers, StoreRestore(h) PROVE ReqOK'
  <2>1. ASSUME NEW g \in Handlers PROVE ReqKept(g)
    BY <1>15 DEF StoreRestore, ReqKept, Finish
  <2> QED BY <1>0, <2>1, KeptIsOK DEF ReqOK, ReqFor
<1>16. ASSUME NEW h \in Handlers, StoreDelete(h) PROVE ReqOK'
  <2>1. ASSUME NEW g \in Handlers PROVE ReqKept(g)
    BY <1>16 DEF StoreDelete, ReqKept, Finish
  <2> QED BY <1>0, <2>1, KeptIsOK DEF ReqOK, ReqFor
<1>17. ASSUME NEW h \in Handlers, StoreBenchmark(h) PROVE ReqOK'
  <2>1. ASSUME NEW g \in Handlers PROVE ReqKept(g)
    BY <1>17 DEF StoreBenchmark, ReqKept, Finish
  <2> QED BY <1>0, <2>1, KeptIsOK DEF ReqOK, ReqFor
<1>18. ASSUME NEW H \in SUBSET Handlers, CutOff(H) PROVE ReqOK'
  <2>1. ASSUME NEW g \in Handlers PROVE ReqKept(g)
    BY <1>18 DEF CutOff, ReqKept, Finish
  <2> QED BY <1>0, <2>1, KeptIsOK DEF ReqOK, ReqFor
<1>19. ASSUME NEW h \in Handlers, CommitFails(h) PROVE ReqOK'
  BY <1>18, <1>19 DEF CommitFails
<1>20. ASSUME Crash PROVE ReqOK'
  BY <1>18, <1>20 DEF Crash
<1> QED BY <1>1, <1>2, <1>3, <1>4, <1>5, <1>6, <1>7, <1>8, <1>9, <1>10, <1>11, <1>12, <1>13, <1>14, <1>15, <1>16, <1>17, <1>19, <1>20 DEF Next, Store

\* Rows stay complete.
LEMMA RowsStep ==
  ASSUME TypeOK, ReqOK, RowsOK, Next PROVE RowsOK'
<1>1. \A x \in Services : RowKept(x)
  BY RowsKept
<1> QED BY <1>1 DEF RowsOK, RowKept


-----------------------------------------------------------------------------
(***************************************************************************)
(* A step either accepts a request or carries on with those there are.     *)
(***************************************************************************)
\* What a service shows to slow requests is left alone.
Kin(x) == /\ Exists(x) => Exists(x)' /\ Same(row'[x], row[x])
          /\ row'[x] = GONE <=> row[x] = GONE
          /\ Exists(x)' /\ ~Exists(x) => /\ row[x] = NULL /\ row'[x].rendered = NULL
                                         /\ row'[x].applied = NULL /\ row'[x].archived = FALSE

EndsSlow(k, x) == IsSlow(k, x) /\ req[k].step = "store" /\ req'[k] = NULL
Stores(k, x)   == /\ EndsSlow(k, x)
                  /\ StoreDeploy(k) \/ DeployRefused(k) \/ StoreArchive(k) \/ StoreRestore(k) \/ StoreDelete(k)
OnDisk(k, x)   == IsSlow(k, x) /\ Disk(k)
Carried(g)     == ReqKept(g) /\ (req'[g] # NULL => /\ req'[g].alone = req[g].alone
                                                  /\ \/ req'[g].step = req[g].step
                                                     \/ OnDisk(g, req[g].service))

GoesOn ==
  /\ \A g \in Handlers : Carried(g)
  /\ mixed' = mixed
  /\ \A x \in Services : Kin(x) \/ \E k \in Handlers : Stores(k, x)
  /\ \A x \in disturbed \ disturbed' : \E k \in Handlers : Stores(k, x) /\ req[k].alone
  /\ \A x \in Services : refused'[x] = refused[x] \/ \E k \in Handlers : Stores(k, x)
  /\ \A k \in Handlers, x \in Services : EndsSlow(k, x) => Stores(k, x) \/ x \in disturbed'
  /\ \A x \in Services : \/ unit'[x] = unit[x] /\ kept'[x] = kept[x]
                         \/ \E k \in Handlers : OnDisk(k, x)

Begun(h, op, s, p, seen) ==
  AcceptedAs(h, op, s, p, seen) /\ (op # "create" => Exists(s) /\ seen = row[s])
Begins == \E h \in Handlers, op \in Slow \cup Quick, s \in Services, p \in Payload, seen \in Row \cup {NULL} :
            Begun(h, op, s, p, seen)

\* There is no third kind of step.
LEMMA GoesOnOrBegins ==
  ASSUME TypeOK, ReqOK, RowsOK, Next PROVE GoesOn \/ Begins
<1>1. ASSUME NEW p \in Profiles, CreateProfile(p) PROVE GoesOn \/ Begins
  <2>1. \A g \in Handlers : Carried(g)
    BY <1>1 DEF CreateProfile, Finish, Carried, ReqKept
  <2>2. \A k \in Handlers, y \in Services : EndsSlow(k, y) => Stores(k, y) \/ y \in disturbed'
    BY <1>1 DEF CreateProfile, Finish, EndsSlow, IsSlow, OfService, Slow
  <2>3. \A x \in Services : Kin(x)
    BY <1>1 DEF CreateProfile, Kin, Same, Exists, Finish
  <2> QED BY <1>1, <2>1, <2>2, <2>3 DEF CreateProfile, Finish, GoesOn, diskVars, history
<1>2. ASSUME NEW p \in Profiles, DeleteProfile(p) PROVE GoesOn \/ Begins
  <2>1. \A g \in Handlers : Carried(g)
    BY <1>2 DEF DeleteProfile, Finish, Carried, ReqKept
  <2>2. \A k \in Handlers, y \in Services : EndsSlow(k, y) => Stores(k, y) \/ y \in disturbed'
    BY <1>2 DEF DeleteProfile, Finish, EndsSlow, IsSlow, OfService, Slow
  <2>3. \A x \in Services : Kin(x)
    BY <1>2 DEF DeleteProfile, Kin, Same, Exists, Finish
  <2> QED BY <1>2, <2>1, <2>2, <2>3 DEF DeleteProfile, Finish, GoesOn, diskVars, history
<1>3. ASSUME NEW p \in Profiles, NEW s \in Services, NEW c \in Configs, SelectProfile(s, p, c) PROVE GoesOn \/ Begins
  <2>1. \A g \in Handlers : Carried(g)
    BY <1>3 DEF SelectProfile, Finish, Carried, ReqKept
  <2>2. \A k \in Handlers, y \in Services : EndsSlow(k, y) => Stores(k, y) \/ y \in disturbed'
    BY <1>3 DEF SelectProfile, Finish, EndsSlow, IsSlow, OfService, Slow
  <2>3. row[s] \in Row /\ Exists(s)
    BY <1>3 DEF SelectProfile, Exists, TypeOK
  <2> DEFINE m == [row[s] EXCEPT !.config = c, !.source = p]
  <2>4. m \in Row /\ Same(m, row[s])
    BY <2>3 DEF Row, Same
  <2>5. row' = [row EXCEPT ![s] = m]
    BY <1>3 DEF SelectProfile
  <2> HIDE DEF m
  <2>6. \A x \in Services : Kin(x)
    BY <2>3, <2>4, <2>5, RecordAssumption DEF Kin, Exists, TypeOK, Same
  <2> QED BY <1>3, <2>1, <2>2, <2>6 DEF SelectProfile, GoesOn, diskVars, history
<1>4. ASSUME NEW s \in Services, NEW c \in Configs, UpdateLaunchConfig(s, c) PROVE GoesOn \/ Begins
  <2>1. \A g \in Handlers : Carried(g)
    BY <1>4 DEF UpdateLaunchConfig, Finish, Carried, ReqKept
  <2>2. \A k \in Handlers, y \in Services : EndsSlow(k, y) => Stores(k, y) \/ y \in disturbed'
    BY <1>4 DEF UpdateLaunchConfig, Finish, EndsSlow, IsSlow, OfService, Slow
  <2>3. row[s] \in Row /\ Exists(s)
    BY <1>4 DEF UpdateLaunchConfig, Exists, TypeOK
  <2> DEFINE m == [row[s] EXCEPT !.config = c]
  <2>4. m \in Row /\ Same(m, row[s])
    BY <2>3 DEF Row, Same
  <2>5. row' = [row EXCEPT ![s] = m]
    BY <1>4 DEF UpdateLaunchConfig
  <2> HIDE DEF m
  <2>6. \A x \in Services : Kin(x)
    BY <2>3, <2>4, <2>5, RecordAssumption DEF Kin, Exists, TypeOK, Same
  <2> QED BY <1>4, <2>1, <2>2, <2>6 DEF UpdateLaunchConfig, GoesOn, diskVars, history
<1>5. ASSUME NEW h \in Handlers, NEW s \in Services, NEW p \in Forms, Create(h, s, p) PROVE GoesOn \/ Begins
  <2>1. Begun(h, "create", s, p, NULL)
    BY <1>5, Accepted DEF Create, Begun
  <2> QED BY <2>1 DEF Begins, Quick
<1>6. ASSUME NEW h \in Handlers, NEW s \in Services, NEW p \in Forms, Update(h, s, p) PROVE GoesOn \/ Begins
  <2>1. Begun(h, "update", s, p, row[s]) /\ row[s] \in Row
    BY <1>6, Accepted DEF Update, Begun, TypeOK, Exists
  <2> QED BY <2>1 DEF Begins, Quick
<1>7. ASSUME NEW h \in Handlers, NEW s \in Services, NEW op \in Slow \cup {"benchmark"}, Begin(h, op, s) PROVE GoesOn \/ Begins
  <2>1. Exists(s) /\ row[s] \in Row
    BY <1>7 DEF Begin, Allowed, Deployable, Measurable, Restorable, Live, Slow, Exists, TypeOK
  <2>2. PayloadOf(row[s]) \in Payload
    BY <2>1 DEF Row, PayloadOf, Payload
  <2>3. Begun(h, op, s, PayloadOf(row[s]), row[s])
    BY <1>7, <2>1, Accepted DEF Begin, Begun
  <2> QED BY <2>1, <2>2, <2>3 DEF Begins, Quick
<1>8. ASSUME NEW h \in Handlers, Disk(h) PROVE GoesOn \/ Begins
  <2> DEFINE t == req[h].service
  <2>1. /\ req[h] \in Request /\ req[h] # NULL /\ req[h].step = "disk"
        /\ req' = [req EXCEPT ![h] = [req[h] EXCEPT !.step = "store"]]
    BY <1>8 DEF Disk, TypeOK
  <2>2. /\ req'[h] \in Request /\ req'[h] # NULL /\ req'[h].step = "store" /\ req'[h].alone = req[h].alone
        /\ ReqKept(h)
    <3> DEFINE r == [req[h] EXCEPT !.step = "store"]
    <3>1. r \in Request /\ r.step = "store" /\ r.alone = req[h].alone /\ r.op = req[h].op
          /\ r.service = req[h].service /\ r.payload = req[h].payload /\ r.seen = req[h].seen
      BY <2>1 DEF Request
    <3>2. req'[h] = r
      BY <2>1 DEF TypeOK
    <3> HIDE DEF r
    <3> QED BY <2>1, <3>1, <3>2, RecordAssumption DEF ReqKept
  <2>3. OnDisk(h, t)
    BY <1>8, <2>1 DEF OnDisk, IsSlow, OfService, ReqOK, ReqFor, Request, Quick, Slow
  <2>4. \A g \in Handlers : Carried(g)
    BY <2>1, <2>2, <2>3 DEF Carried, ReqKept
  <2>5. \A k \in Handlers, y \in Services : EndsSlow(k, y) => Stores(k, y) \/ y \in disturbed'
    BY <2>1, <2>2 DEF EndsSlow, IsSlow, OfService
  <2>6. \A x \in Services : (unit'[x] = unit[x] /\ kept'[x] = kept[x]) \/ x = t
    <3>1. req[h].op \in {"deploy", "archive", "restore", "delete"}
      BY <2>1 DEF ReqOK, ReqFor, Request, Quick, Slow
    <3>2. CASE req[h].op = "deploy"
      BY <1>8, <3>2 DEF Disk, TypeOK
    <3>3. CASE req[h].op = "archive"
      BY <1>8, <3>3 DEF Disk, TypeOK, diskVars
    <3>4. CASE req[h].op = "restore"
      BY <1>8, <3>4 DEF Disk, TypeOK, diskVars
    <3>5. CASE req[h].op = "delete"
      BY <1>8, <3>5 DEF Disk, TypeOK
    <3> QED BY <3>1, <3>2, <3>3, <3>4, <3>5
  <2>7. \A x \in Services : Kin(x)
    BY <1>8 DEF Disk, Kin, Same, Exists
  <2> QED BY <1>8, <2>4, <2>3, <2>6, <2>7, <2>5 DEF Disk, GoesOn, history
<1>9. ASSUME NEW h \in Handlers, DiskFails(h) PROVE GoesOn \/ Begins
  <2>1. \A g \in Handlers : Carried(g)
    BY <1>9 DEF DiskFails, Finish, Carried, ReqKept
  <2>2. \A k \in Handlers, y \in Services : EndsSlow(k, y) => Stores(k, y) \/ y \in disturbed'
    BY <1>9 DEF DiskFails, Finish, EndsSlow, IsSlow, OfService, Slow
  <2>3. \A x \in Services : Kin(x)
    BY <1>9 DEF DiskFails, Kin, Same, Exists, Finish
  <2> QED BY <1>9, <2>1, <2>2, <2>3 DEF DiskFails, Finish, GoesOn, diskVars, history
<1>10. ASSUME NEW h \in Handlers, StoreCreate(h) PROVE GoesOn \/ Begins
  <2>1. \A g \in Handlers : Carried(g)
    BY <1>10 DEF StoreCreate, Finish, Carried, ReqKept
  <2>2. \A k \in Handlers, y \in Services : EndsSlow(k, y) => Stores(k, y) \/ y \in disturbed'
    BY <1>10 DEF StoreCreate, Finish, EndsSlow, IsSlow, OfService, Slow
  <2>3. req[h].service \in Services /\ NewRow(req[h].payload) \in Row
    BY <1>10 DEF StoreCreate, Finish, TypeOK, Request, NewRow, Row, Payload
  <2>4. \A x \in Services : Kin(x)
    BY <1>10, <2>3, RecordAssumption DEF StoreCreate, Kin, Exists, TypeOK, Same, NewRow
  <2> QED BY <1>10, <2>1, <2>2, <2>4 DEF StoreCreate, GoesOn, diskVars
<1>11. ASSUME NEW h \in Handlers, StoreUpdate(h) PROVE GoesOn \/ Begins
  <2>1. \A g \in Handlers : Carried(g)
    BY <1>11 DEF StoreUpdate, Finish, Carried, ReqKept
  <2>2. \A k \in Handlers, y \in Services : EndsSlow(k, y) => Stores(k, y) \/ y \in disturbed'
    BY <1>11 DEF StoreUpdate, Finish, EndsSlow, IsSlow, OfService, Slow
  <2> DEFINE t == req[h].service
  <2>3. req[h] # NULL /\ t \in Services
    BY <1>11 DEF StoreUpdate, Finish, TypeOK, Request
  <2>4. \A x \in Services : Kin(x)
    <3>1. CASE Exists(t)
      <4>1. row[t] \in Row
        BY <2>3, <3>1 DEF Exists, TypeOK
      <4>2. PICK m \in Row : row' = [row EXCEPT ![t] = m] /\ Same(m, row[t])
        BY <1>11, <3>1, WriteUpdated
      <4> HIDE DEF t
      <4> QED BY <2>3, <3>1, <4>1, <4>2, RecordAssumption DEF Kin, Exists, TypeOK, Same
    <3>2. CASE ~Exists(t)
      BY <1>11, <3>2 DEF StoreUpdate, Write, Kin, Same, Exists
    <3> QED BY <3>1, <3>2
  <2> QED BY <1>11, <2>1, <2>2, <2>4 DEF StoreUpdate, GoesOn, diskVars
<1>12. ASSUME NEW h \in Handlers, StoreDeploy(h) PROVE GoesOn \/ Begins
  <2>1. \A g \in Handlers : Carried(g)
    BY <1>12 DEF StoreDeploy, Finish, Carried, ReqKept
  <2> DEFINE t == req[h].service
  <2>2. req[h] # NULL /\ t \in Services
    BY <1>12 DEF StoreDeploy, Finish, TypeOK, Request
  <2>3. EndsSlow(h, t) /\ Stores(h, t)
    <3>1. EndsSlow(h, t)
      BY <1>12, <2>2 DEF StoreDeploy, Finish, EndsSlow, IsSlow, OfService, Slow, TypeOK
    <3> QED BY <1>12, <3>1 DEF Stores
  <2>4. \A k \in Handlers, y \in Services : EndsSlow(k, y) => Stores(k, y) \/ y \in disturbed'
    BY <1>12, <2>2, <2>3 DEF StoreDeploy, Finish, EndsSlow, IsSlow, OfService
  <2>5. \A x \in Services \ {t} : row'[x] = row[x]
    BY <1>12 DEF StoreDeploy, Write, TypeOK
  <2>6. \A x \in Services : Kin(x) \/ x = t
    BY <2>5 DEF Kin, Same, Exists
  <2>7. \A x \in Services : refused'[x] = refused[x] \/ x = t
    BY <1>12 DEF StoreDeploy, TypeOK
  <2> QED BY <1>12, <2>1, <2>4, <2>2, <2>3, <2>6, <2>7 DEF StoreDeploy, GoesOn, Repair, diskVars, history
<1>13. ASSUME NEW h \in Handlers, DeployRefused(h) PROVE GoesOn \/ Begins
  <2>1. \A g \in Handlers : Carried(g)
    BY <1>13 DEF DeployRefused, Finish, Carried, ReqKept
  <2> DEFINE t == req[h].service
  <2>2. req[h] # NULL /\ t \in Services
    BY <1>13 DEF DeployRefused, Finish, TypeOK, Request
  <2>3. EndsSlow(h, t) /\ Stores(h, t)
    <3>1. EndsSlow(h, t)
      BY <1>13, <2>2 DEF DeployRefused, Finish, EndsSlow, IsSlow, OfService, Slow, TypeOK
    <3> QED BY <1>13, <3>1 DEF Stores
  <2>4. \A k \in Handlers, y \in Services : EndsSlow(k, y) => Stores(k, y) \/ y \in disturbed'
    BY <1>13, <2>2, <2>3 DEF DeployRefused, Finish, EndsSlow, IsSlow, OfService
  <2>5. \A x \in Services : Kin(x)
    BY <1>13 DEF DeployRefused, Kin, Same, Exists
  <2>6. \A x \in Services : refused'[x] = refused[x] \/ x = t
    BY <1>13 DEF DeployRefused, TypeOK
  <2> QED BY <1>13, <2>1, <2>4, <2>2, <2>3, <2>5, <2>6 DEF DeployRefused, GoesOn, diskVars
<1>14. ASSUME NEW h \in Handlers, StoreArchive(h) PROVE GoesOn \/ Begins
  <2>1. \A g \in Handlers : Carried(g)
    BY <1>14 DEF StoreArchive, Finish, Carried, ReqKept
  <2> DEFINE t == req[h].service
  <2>2. req[h] # NULL /\ t \in Services
    BY <1>14 DEF StoreArchive, Finish, TypeOK, Request
  <2>3. EndsSlow(h, t) /\ Stores(h, t)
    <3>1. EndsSlow(h, t)
      BY <1>14, <2>2 DEF StoreArchive, Finish, EndsSlow, IsSlow, OfService, Slow, TypeOK
    <3> QED BY <1>14, <3>1 DEF Stores
  <2>4. \A k \in Handlers, y \in Services : EndsSlow(k, y) => Stores(k, y) \/ y \in disturbed'
    BY <1>14, <2>2, <2>3 DEF StoreArchive, Finish, EndsSlow, IsSlow, OfService
  <2>5. \A x \in Services \ {t} : row'[x] = row[x]
    BY <1>14 DEF StoreArchive, Write, TypeOK
  <2>6. \A x \in Services : Kin(x) \/ x = t
    BY <2>5 DEF Kin, Same, Exists
  <2> QED BY <1>14, <2>1, <2>4, <2>2, <2>3, <2>6 DEF StoreArchive, GoesOn, Repair, diskVars, history
<1>15. ASSUME NEW h \in Handlers, StoreRestore(h) PROVE GoesOn \/ Begins
  <2>1. \A g \in Handlers : Carried(g)
    BY <1>15 DEF StoreRestore, Finish, Carried, ReqKept
  <2> DEFINE t == req[h].service
  <2>2. req[h] # NULL /\ t \in Services
    BY <1>15 DEF StoreRestore, Finish, TypeOK, Request
  <2>3. EndsSlow(h, t) /\ Stores(h, t)
    <3>1. EndsSlow(h, t)
      BY <1>15, <2>2 DEF StoreRestore, Finish, EndsSlow, IsSlow, OfService, Slow, TypeOK
    <3> QED BY <1>15, <3>1 DEF Stores
  <2>4. \A k \in Handlers, y \in Services : EndsSlow(k, y) => Stores(k, y) \/ y \in disturbed'
    BY <1>15, <2>2, <2>3 DEF StoreRestore, Finish, EndsSlow, IsSlow, OfService
  <2>5. \A x \in Services \ {t} : row'[x] = row[x]
    BY <1>15 DEF StoreRestore, Write, TypeOK
  <2>6. \A x \in Services : Kin(x) \/ x = t
    BY <2>5 DEF Kin, Same, Exists
  <2> QED BY <1>15, <2>1, <2>4, <2>2, <2>3, <2>6 DEF StoreRestore, GoesOn, Repair, diskVars, history
<1>16. ASSUME NEW h \in Handlers, StoreDelete(h) PROVE GoesOn \/ Begins
  <2>1. \A g \in Handlers : Carried(g)
    BY <1>16 DEF StoreDelete, Finish, Carried, ReqKept
  <2> DEFINE t == req[h].service
  <2>2. req[h] # NULL /\ t \in Services
    BY <1>16 DEF StoreDelete, Finish, TypeOK, Request
  <2>3. EndsSlow(h, t) /\ Stores(h, t)
    <3>1. EndsSlow(h, t)
      BY <1>16, <2>2 DEF StoreDelete, Finish, EndsSlow, IsSlow, OfService, Slow, TypeOK
    <3> QED BY <1>16, <3>1 DEF Stores
  <2>4. \A k \in Handlers, y \in Services : EndsSlow(k, y) => Stores(k, y) \/ y \in disturbed'
    BY <1>16, <2>2, <2>3 DEF StoreDelete, Finish, EndsSlow, IsSlow, OfService
  <2>5. \A x \in Services \ {t} : row'[x] = row[x]
    BY <1>16 DEF StoreDelete, Write, TypeOK
  <2>6. \A x \in Services : Kin(x) \/ x = t
    BY <2>5 DEF Kin, Same, Exists
  <2> QED BY <1>16, <2>1, <2>4, <2>2, <2>3, <2>6 DEF StoreDelete, GoesOn, Repair, diskVars, history
<1>17. ASSUME NEW h \in Handlers, StoreBenchmark(h) PROVE GoesOn \/ Begins
  <2>1. \A g \in Handlers : Carried(g)
    BY <1>17 DEF StoreBenchmark, Finish, Carried, ReqKept
  <2>2. \A k \in Handlers, y \in Services : EndsSlow(k, y) => Stores(k, y) \/ y \in disturbed'
    BY <1>17 DEF StoreBenchmark, Finish, EndsSlow, IsSlow, OfService, Slow
  <2>3. \A x \in Services : Kin(x)
    BY <1>17 DEF StoreBenchmark, Kin, Same, Exists, Finish
  <2> QED BY <1>17, <2>1, <2>2, <2>3 DEF StoreBenchmark, Finish, GoesOn, diskVars, history
<1>18. ASSUME NEW H \in SUBSET Handlers, CutOff(H) PROVE GoesOn \/ Begins
  <2>1. \A g \in Handlers : Carried(g)
    BY <1>18 DEF CutOff, Carried, ReqKept
  <2>2. \A k \in Handlers, y \in Services : EndsSlow(k, y) => Stores(k, y) \/ y \in disturbed'
    BY <1>18 DEF CutOff, EndsSlow, IsSlow, OfService, Slow, Working
  <2>3. \A x \in Services : Kin(x)
    BY <1>18 DEF CutOff, Kin, Same, Exists
  <2> QED BY <1>18, <2>1, <2>2, <2>3 DEF CutOff, GoesOn, diskVars
<1>19. ASSUME NEW h \in Handlers, CommitFails(h) PROVE GoesOn \/ Begins
  BY <1>18, <1>19 DEF CommitFails
<1>20. ASSUME Crash PROVE GoesOn \/ Begins
  BY <1>18, <1>20 DEF Crash
<1> QED BY <1>1, <1>2, <1>3, <1>4, <1>5, <1>6, <1>7, <1>8, <1>9, <1>10, <1>11, <1>12, <1>13, <1>14, <1>15, <1>16, <1>17, <1>19, <1>20 DEF Next, Store


-----------------------------------------------------------------------------
(***************************************************************************)
(* Slow requests that meet no other.                                       *)
(***************************************************************************)
\* What an accepted request changes in the others.
LEMMA BegunOthers ==
  ASSUME TypeOK, NEW h \in Handlers, NEW op, NEW s, NEW p, NEW seen, Begun(h, op, s, p, seen),
         NEW g \in Handlers \ {h}, NEW x \in Services
  PROVE  /\ IsSlow(g, x)' <=> IsSlow(g, x)
         /\ req'[g] # NULL => /\ req[g] # NULL /\ req'[g].op = req[g].op /\ req'[g].service = req[g].service
                              /\ req'[g].seen = req[g].seen /\ req'[g].step = req[g].step
                              /\ req'[g].payload = req[g].payload
                              /\ IF op \in Slow /\ IsSlow(g, s) THEN ~req'[g].alone ELSE req'[g].alone = req[g].alone
<1>1. AcceptedAs(h, op, s, p, seen)
  BY DEF Begun
<1>2. CASE op \in Slow /\ IsSlow(g, s)
  <2> DEFINE r == [req[g] EXCEPT !.alone = FALSE]
  <2>1. req[g] \in Request /\ req[g] # NULL
    BY <1>2 DEF IsSlow, OfService, TypeOK
  <2>2. /\ r \in Request /\ r.op = req[g].op /\ r.service = req[g].service /\ r.seen = req[g].seen
        /\ r.step = req[g].step /\ r.payload = req[g].payload /\ ~r.alone
    BY <2>1 DEF Request
  <2>3. req'[g] = r
    BY <1>1, <1>2 DEF AcceptedAs, IsSlow, OfService
  <2> HIDE DEF r
  <2> QED BY <1>2, <2>1, <2>2, <2>3, RecordAssumption DEF IsSlow, OfService
<1>3. CASE ~(op \in Slow /\ IsSlow(g, s))
  <2>1. req'[g] = req[g]
    BY <1>1, <1>3 DEF AcceptedAs, IsSlow, OfService
  <2> QED BY <1>3, <2>1 DEF IsSlow, OfService
<1> QED BY <1>2, <1>3

\* The accepted request itself.
LEMMA BegunNew ==
  ASSUME TypeOK, NEW h \in Handlers, NEW op, NEW s, NEW p, NEW seen, Begun(h, op, s, p, seen)
  PROVE  /\ req[h] = NULL /\ req'[h].op = op /\ req'[h].service = s /\ req'[h].payload = p
         /\ req'[h].seen = seen /\ (op \in Slow => req'[h].step = "disk")
         /\ req'[h].alone = ~Meets(op, s)
         /\ op # "create" => Exists(s) /\ seen = row[s]
         /\ UNCHANGED <<row, unit, kept, profiles, jobs, refused, raced>>
<1>1. AcceptedAs(h, op, s, p, seen)
  BY DEF Begun
<1> QED BY <1>1 DEF AcceptedAs, diskVars, Begun

\* A slow request loses its solitude only to another that is accepted.
LEMMA SoloStep ==
  ASSUME TypeOK, ReqOK, RowsOK, Solo, Next PROVE Solo'
<1>1. CASE GoesOn
  <2> SUFFICES ASSUME NEW h \in Handlers, NEW s \in Services, IsSlow(h, s)'
               PROVE  (IF req[h].alone
                       THEN /\ \A g \in Handlers : IsSlow(g, s) => g = h
                            /\ Exists(s) /\ Same(row[s], req[h].seen)
                       ELSE s \in mixed /\ s \in disturbed)'
    BY DEF Solo
  <2>1. \A g \in Handlers : IsSlow(g, s)' => /\ IsSlow(g, s) /\ req'[g].alone = req[g].alone
                                             /\ req'[g].seen = req[g].seen /\ req'[g] # NULL
    BY <1>1 DEF GoesOn, Carried, ReqKept, IsSlow, OfService
  <2>2. CASE req[h].alone
    <3>1. /\ \A g \in Handlers : IsSlow(g, s) => g = h
          /\ Exists(s) /\ Same(row[s], req[h].seen)
      BY <2>1, <2>2 DEF Solo
    <3>2. Kin(s)
      BY <1>1, <2>1, <3>1 DEF GoesOn, Stores, EndsSlow
    <3>3. Exists(s)' /\ Same(row'[s], req[h].seen)
      BY <3>1, <3>2 DEF Kin, Same
    <3> QED BY <2>1, <2>2, <3>1, <3>3 DEF Same
  <2>3. CASE ~req[h].alone
    <3>1. s \in mixed /\ s \in disturbed
      BY <2>1, <2>3 DEF Solo
    <3>2. s \in disturbed'
      <4> SUFFICES ASSUME s \notin disturbed' PROVE FALSE
        OBVIOUS
      <4>1. PICK k \in Handlers : Stores(k, s) /\ req[k].alone
        BY <1>1, <3>1 DEF GoesOn
      <4>2. k = h
        BY <2>1, <4>1 DEF Stores, EndsSlow, Solo
      <4> QED BY <2>1, <4>1, <4>2 DEF Stores, EndsSlow
    <3> QED BY <1>1, <2>1, <2>3, <3>1, <3>2 DEF GoesOn
  <2> QED BY <2>2, <2>3
<1>2. CASE Begins
  <2>1. PICK h \in Handlers, op \in Slow \cup Quick, s \in Services, p \in Payload, seen \in Row \cup {NULL} :
          Begun(h, op, s, p, seen)
    BY <1>2 DEF Begins
  <2>2. /\ req[h] = NULL /\ req'[h].op = op /\ req'[h].service = s /\ req'[h].seen = seen
        /\ req'[h].alone = ~Meets(op, s) /\ row' = row
        /\ op # "create" => Exists(s) /\ seen = row[s]
    BY <2>1, BegunNew
  <2>3. /\ mixed' = (IF Meets(op, s) THEN mixed \cup {s} ELSE mixed)
        /\ disturbed' = (IF Meets(op, s) THEN disturbed \cup {s} ELSE disturbed)
    BY <2>1 DEF Begun, AcceptedAs
  <2> SUFFICES ASSUME NEW g \in Handlers, NEW x \in Services, IsSlow(g, x)'
               PROVE  (IF req[g].alone
                       THEN /\ \A k \in Handlers : IsSlow(k, x) => k = g
                            /\ Exists(x) /\ Same(row[x], req[g].seen)
                       ELSE x \in mixed /\ x \in disturbed)'
    BY DEF Solo
  <2>4. \A k \in Handlers \ {h} : IsSlow(k, x)' <=> IsSlow(k, x)
    BY <2>1, BegunOthers
  <2>5. IsSlow(h, x)' => op \in Slow /\ x = s
    BY <2>2 DEF IsSlow, OfService
  <2>6. CASE g = h
    <3>1. op \in Slow /\ x = s /\ Exists(s) /\ seen = row[s]
      BY <2>2, <2>5, <2>6 DEF Slow
    <3>2. CASE Meets(op, s)
      BY <2>2, <2>3, <2>6, <3>1, <3>2
    <3>3. CASE ~Meets(op, s)
      <4>1. \A k \in Handlers : IsSlow(k, x)' => k = g
        BY <2>4, <2>6, <3>1, <3>3 DEF Meets
      <4>2. Exists(x)' /\ Same(row'[x], req'[g].seen)
        BY <2>2, <2>6, <3>1 DEF Exists, Same
      <4> QED BY <2>2, <2>6, <3>3, <4>1, <4>2 DEF Same
    <3> QED BY <3>2, <3>3
  <2>7. CASE g # h
    <3>1. /\ IsSlow(g, x) /\ req[g] # NULL /\ req'[g].seen = req[g].seen
          /\ IF op \in Slow /\ IsSlow(g, s) THEN ~req'[g].alone ELSE req'[g].alone = req[g].alone
      BY <2>1, <2>4, <2>7, BegunOthers DEF IsSlow, OfService
    <3>2. CASE op \in Slow /\ IsSlow(g, s)
      <4>1. x = s /\ Meets(op, s)
        BY <3>1, <3>2 DEF IsSlow, OfService, Meets
      <4> QED BY <2>3, <3>1, <3>2, <4>1
    <3>3. CASE ~(op \in Slow /\ IsSlow(g, s))
      <4>1. ~IsSlow(h, x)'
        BY <2>5, <3>1, <3>3
      <4>2. req'[g].alone = req[g].alone
        BY <3>1, <3>3 DEF IsSlow, OfService
      <4>3. CASE req[g].alone
        <5>1. /\ \A k \in Handlers : IsSlow(k, x) => k = g
              /\ Exists(x) /\ Same(row[x], req[g].seen)
          BY <3>1, <4>3 DEF Solo
        <5>2. \A k \in Handlers : IsSlow(k, x)' => k = g
          BY <2>4, <4>1, <5>1
        <5>3. Exists(x)' /\ Same(row'[x], req'[g].seen)
          BY <2>2, <3>1, <5>1 DEF Exists, Same
        <5> QED BY <4>2, <4>3, <5>2, <5>3 DEF Same
      <4>4. CASE ~req[g].alone
        BY <2>3, <3>1, <4>2, <4>4 DEF Solo
      <4> QED BY <4>3, <4>4
    <3> QED BY <3>2, <3>3
  <2> QED BY <2>6, <2>7
<1> QED BY <1>1, <1>2, GoesOnOrBegins


-----------------------------------------------------------------------------
(***************************************************************************)
(* What is called applied, and what benchmarks keep.                       *)
(***************************************************************************)
LEMMA WholeRowsStep ==
  ASSUME TypeOK, ReqOK, RowsOK, Solo, WholeRows, Next PROVE WholeRows'
<1> SUFFICES ASSUME NEW x \in Services, Exists(x)', (x \notin mixed \/ x \notin disturbed)'
             PROVE  WholeRow(row[x])'
  BY DEF WholeRows
<1>1. CASE GoesOn
  <2>1. CASE \E k \in Handlers : Stores(k, x)
    <3>1. PICK k \in Handlers : Stores(k, x)
      BY <2>1
    <3>2. /\ req[k] # NULL /\ req[k].service = x /\ IsSlow(k, x)
          /\ req[k].alone => Same(row[x], req[k].seen)
          /\ ~req[k].alone => x \in mixed /\ x \in disturbed
      BY <3>1 DEF Stores, EndsSlow, IsSlow, OfService, Solo
    <3>3. Exists(x) /\ row[x] \in Row
      <4>1. row[x] # NULL
        BY <3>1, <3>2 DEF Stores, EndsSlow, IsSlow, Slow, ReqOK, ReqFor
      <4>2. RowKept(x)
        BY RowsKept
      <4> QED BY <4>1, <4>2 DEF RowKept, Exists, TypeOK
    <3>4. CASE StoreDeploy(k)
      <4>1. req[k].alone
        <5> SUFFICES ASSUME ~req[k].alone PROVE FALSE
          OBVIOUS
        <5>1. mixed' = mixed /\ disturbed' = disturbed
          BY <3>4 DEF StoreDeploy, Repair
        <5> QED BY <3>2, <5>1
      <4>2. PICK m \in Row : /\ row' = [row EXCEPT ![x] = m]
                             /\ m.rendered = Render(req[k].seen) /\ m.applied = req[k].seen.config
                             /\ m.appliedService = PayloadOf(req[k].seen)
        BY <3>2, <3>3, <3>4, <4>1, WriteDeployed
      <4>3. row'[x] = m
        BY <4>2 DEF TypeOK
      <4> QED BY <4>2, <4>3 DEF WholeRow, Render, Text, PayloadOf
    <3>7. CASE DeployRefused(k)
      <4>1. row' = row /\ mixed' = mixed /\ disturbed' = disturbed
        BY <3>7 DEF DeployRefused
      <4> QED BY <3>3, <4>1 DEF WholeRows, WholeRow
    <3>5. CASE StoreArchive(k) \/ StoreRestore(k)
      <4>1. mixed' = mixed /\ disturbed' = disturbed
        BY <3>5 DEF StoreArchive, StoreRestore, history
      <4>2. WholeRow(row[x])
        BY <3>3, <4>1 DEF WholeRows
      <4>3. PICK b \in BOOLEAN : row' = [row EXCEPT ![x].archived = b]
        BY <3>2, <3>3, <3>5, WriteArchived, WriteRestored
      <4> DEFINE m == [row[x] EXCEPT !.archived = b]
      <4>4. m.rendered = row[x].rendered /\ m.applied = row[x].applied /\ m.appliedService = row[x].appliedService
        BY <3>3 DEF Row
      <4>5. row'[x] = m
        BY <4>3 DEF TypeOK
      <4> HIDE DEF m
      <4> QED BY <4>2, <4>4, <4>5 DEF WholeRow
    <3>6. CASE StoreDelete(k)
      <4>1. row'[x] = GONE
        BY <3>2, <3>6 DEF StoreDelete, TypeOK
      <4> QED BY <4>1 DEF Exists
    <3> QED BY <3>1, <3>4, <3>5, <3>6, <3>7 DEF Stores
  <2>2. CASE ~ \E k \in Handlers : Stores(k, x)
    <3>1. Kin(x) /\ (x \in disturbed => x \in disturbed') /\ mixed' = mixed
      BY <1>1, <2>2 DEF GoesOn
    <3>2. CASE Exists(x)
      BY <3>1, <3>2 DEF Kin, Same, WholeRows, WholeRow
    <3>3. CASE ~Exists(x)
      BY <3>1, <3>3 DEF Kin, WholeRow
    <3> QED BY <3>2, <3>3
  <2> QED BY <2>1, <2>2
<1>2. CASE Begins
  <2>1. row' = row /\ mixed \subseteq mixed' /\ disturbed \subseteq disturbed'
    BY <1>2 DEF Begins, Begun, AcceptedAs
  <2> QED BY <2>1 DEF WholeRows, WholeRow, Exists
<1> QED BY <1>1, <1>2, GoesOnOrBegins

\* A benchmark has read a complete row unless deployments met.
LEMMA WholeSeenStep ==
  ASSUME TypeOK, ReqOK, RowsOK, WholeRows, WholeSeen, Next PROVE WholeSeen'
<1> SUFFICES ASSUME NEW g \in Handlers, (req[g] # NULL /\ req[g].op = "benchmark" /\ req[g].service \notin mixed)'
             PROVE  WholeRow(req[g].seen)'
  BY DEF WholeSeen
<1>1. CASE GoesOn
  <2>1. req[g] # NULL /\ req[g].op = "benchmark" /\ req[g].service \notin mixed /\ req'[g].seen = req[g].seen
    BY <1>1 DEF GoesOn, Carried, ReqKept
  <2> QED BY <2>1 DEF WholeSeen, WholeRow
<1>2. CASE Begins
  <2>1. PICK h \in Handlers, op \in Slow \cup Quick, s \in Services, p \in Payload, seen \in Row \cup {NULL} :
          Begun(h, op, s, p, seen)
    BY <1>2 DEF Begins
  <2>2. mixed \subseteq mixed'
    BY <2>1 DEF Begun, AcceptedAs
  <2>3. CASE g = h
    <3>1. req'[h].op = op /\ req'[h].service = s /\ req'[h].seen = seen /\ (op # "create" => Exists(s) /\ seen = row[s])
      BY <2>1, BegunNew
    <3> QED BY <2>2, <2>3, <3>1 DEF WholeRows, WholeRow
  <2>4. CASE g # h
    <3>1. req[g] # NULL /\ req'[g].op = req[g].op /\ req'[g].service = req[g].service /\ req'[g].seen = req[g].seen
      BY <2>1, <2>4, BegunOthers
    <3> QED BY <2>2, <3>1 DEF WholeSeen, WholeRow
  <2> QED BY <2>3, <2>4
<1> QED BY <1>1, <1>2, GoesOnOrBegins


\* What benchmarks keep stays right.
LEMMA WholeJobsStep ==
  ASSUME TypeOK, ReqOK, WholeSeen, WholeJobs, Next PROVE WholeJobs'
<1>1. ASSUME NEW p \in Profiles, CreateProfile(p) PROVE WholeJobs'
  BY <1>1 DEF CreateProfile, WholeJobs, Finish, history
<1>2. ASSUME NEW p \in Profiles, DeleteProfile(p) PROVE WholeJobs'
  BY <1>2 DEF DeleteProfile, WholeJobs, Finish, history
<1>3. ASSUME NEW p \in Profiles, NEW s \in Services, NEW c \in Configs, SelectProfile(s, p, c) PROVE WholeJobs'
  BY <1>3 DEF SelectProfile, WholeJobs, Finish, history
<1>4. ASSUME NEW s \in Services, NEW c \in Configs, UpdateLaunchConfig(s, c) PROVE WholeJobs'
  BY <1>4 DEF UpdateLaunchConfig, WholeJobs, Finish, history
<1>5. ASSUME NEW h \in Handlers, NEW s \in Services, NEW p \in Forms, Create(h, s, p) PROVE WholeJobs'
  BY <1>5 DEF Create, Accept, WholeJobs
<1>6. ASSUME NEW h \in Handlers, NEW s \in Services, NEW p \in Forms, Update(h, s, p) PROVE WholeJobs'
  BY <1>6 DEF Update, Accept, WholeJobs
<1>7. ASSUME NEW h \in Handlers, NEW s \in Services, NEW op \in Slow \cup {"benchmark"}, Begin(h, op, s) PROVE WholeJobs'
  BY <1>7 DEF Begin, Accept, WholeJobs
<1>8. ASSUME NEW h \in Handlers, Disk(h) PROVE WholeJobs'
  BY <1>8 DEF Disk, WholeJobs, Finish, history
<1>9. ASSUME NEW h \in Handlers, DiskFails(h) PROVE WholeJobs'
  BY <1>9 DEF DiskFails, WholeJobs, Finish, history
<1>10. ASSUME NEW h \in Handlers, StoreCreate(h) PROVE WholeJobs'
  BY <1>10 DEF StoreCreate, WholeJobs, Finish, history
<1>11. ASSUME NEW h \in Handlers, StoreUpdate(h) PROVE WholeJobs'
  BY <1>11 DEF StoreUpdate, WholeJobs, Finish, history
<1>12. ASSUME NEW h \in Handlers, StoreDeploy(h) PROVE WholeJobs'
  BY <1>12 DEF StoreDeploy, WholeJobs, Finish, history
<1>13. ASSUME NEW h \in Handlers, DeployRefused(h) PROVE WholeJobs'
  BY <1>13 DEF DeployRefused, WholeJobs, Finish, history
<1>14. ASSUME NEW h \in Handlers, StoreArchive(h) PROVE WholeJobs'
  BY <1>14 DEF StoreArchive, WholeJobs, Finish, history
<1>15. ASSUME NEW h \in Handlers, StoreRestore(h) PROVE WholeJobs'
  BY <1>15 DEF StoreRestore, WholeJobs, Finish, history
<1>16. ASSUME NEW h \in Handlers, StoreDelete(h) PROVE WholeJobs'
  BY <1>16 DEF StoreDelete, WholeJobs, Finish, history
<1>17. ASSUME NEW h \in Handlers, StoreBenchmark(h) PROVE WholeJobs'
  <2> DEFINE j == [service |-> req[h].service, profile |-> req[h].seen.appliedSource, unit |-> req[h].seen.rendered,
                   config |-> req[h].seen.applied, payload |-> req[h].seen.appliedService]
  <2>1. /\ req[h] # NULL /\ req[h].op = "benchmark" /\ req[h].seen.applied # NULL
    BY <1>17 DEF StoreBenchmark, Finish, ReqOK, ReqFor
  <2>2. j.service \notin mixed => j.unit = Text(j.config, j.payload)
    BY <2>1 DEF WholeSeen, WholeRow
  <2>3. jobs' = (IF j.profile = NULL \/ j.profile \in profiles THEN jobs \cup {j} ELSE jobs)
    BY <1>17 DEF StoreBenchmark, Known
  <2>4. profiles' = profiles /\ mixed' = mixed
    BY <1>17 DEF StoreBenchmark, history
  <2> HIDE DEF j
  <2> QED BY <2>2, <2>3, <2>4 DEF WholeJobs
<1>18. ASSUME NEW H \in SUBSET Handlers, CutOff(H) PROVE WholeJobs'
  BY <1>18 DEF CutOff, WholeJobs, Finish, history
<1>19. ASSUME NEW h \in Handlers, CommitFails(h) PROVE WholeJobs'
  BY <1>18, <1>19 DEF CommitFails
<1>20. ASSUME Crash PROVE WholeJobs'
  BY <1>18, <1>20 DEF Crash
<1> QED BY <1>1, <1>2, <1>3, <1>4, <1>5, <1>6, <1>7, <1>8, <1>9, <1>10, <1>11, <1>12, <1>13, <1>14, <1>15, <1>16, <1>17, <1>19, <1>20 DEF Next, Store


-----------------------------------------------------------------------------
(***************************************************************************)
(* The unit files, seen from one service.                                  *)
(***************************************************************************)
\* The step on the disk of a request that no other has met.
LEMMA DiskMoves ==
  ASSUME TypeOK, ReqOK, RowsOK, Solo, Files, NEW k \in Handlers, NEW x \in Services,
         IsSlow(k, x), req[k].alone, Disk(k)
  PROVE  Moved(k, x)'
<1> DEFINE seen == req[k].seen
<1>1. /\ req[k] # NULL /\ req[k].service = x /\ req[k].step = "disk" /\ req[k].op \in Slow
      /\ \A g \in Handlers : IsSlow(g, x) => g = k
      /\ Exists(x) /\ Same(row[x], seen)
  BY DEF IsSlow, OfService, Solo, Disk
<1>2. row[x] \in Row /\ seen \in Row
  BY <1>1 DEF Exists, TypeOK, ReqOK, ReqFor, Slow
<1>3. /\ req'[k].op = req[k].op /\ req'[k].seen = seen /\ row' = row
      /\ disturbed' = disturbed /\ refused' = refused
  <2>1. req[k] \in Request /\ req' = [req EXCEPT ![k] = [req[k] EXCEPT !.step = "store"]]
    BY <1>1 DEF Disk, TypeOK
  <2> DEFINE r == [req[k] EXCEPT !.step = "store"]
  <2>2. r.op = req[k].op /\ r.seen = seen
    BY <2>1 DEF Request
  <2>3. req'[k] = r
    BY <2>1 DEF TypeOK
  <2> HIDE DEF r
  <2> QED BY <2>2, <2>3 DEF Disk, history
<1>4. x \notin disturbed => InPlace(x)
  BY <1>1 DEF Files, AtRest
<1>5. CASE req[k].op = "deploy"
  <2>1. unit'[x] = Render(seen)
    BY <1>1, <1>5 DEF Disk, TypeOK
  <2> QED BY <1>3, <1>5, <2>1 DEF Moved, Render, Text
<1>6. CASE req[k].op = "delete"
  <2>1. unit'[x] = NULL /\ kept'[x] = NULL
    BY <1>1, <1>6 DEF Disk, TypeOK
  <2> QED BY <1>3, <1>6, <2>1 DEF Moved
<1>7. CASE req[k].op = "archive"
  <2> SUFFICES ASSUME x \notin disturbed PROVE unit'[x] = NULL /\ kept'[x] = Last(x)
    BY <1>3, <1>7 DEF Moved, Last
  <2>1. ~row[x].archived /\ unit[x] = Last(x) /\ (unit[x] = NULL => kept[x] = NULL)
    BY <1>1, <1>4, <1>7 DEF InPlace, Same, ReqOK, ReqFor
  <2>2. CASE unit[x] # NULL
    <3>1. unit'[x] = NULL /\ kept'[x] = unit[x]
      BY <1>1, <1>7, <2>2 DEF Disk, TypeOK
    <3> QED BY <2>1, <3>1
  <2>3. CASE unit[x] = NULL
    <3>1. unit' = unit /\ kept' = kept
      BY <1>1, <1>7, <2>3 DEF Disk, diskVars
    <3> QED BY <2>1, <2>3, <3>1
  <2> QED BY <2>2, <2>3
<1>8. CASE req[k].op = "restore"
  <2> SUFFICES ASSUME x \notin disturbed PROVE unit'[x] = Last(x) /\ kept'[x] = NULL
    BY <1>3, <1>8 DEF Moved, Last
  <2>1. row[x].archived /\ unit[x] = NULL /\ kept[x] = Last(x) /\ (Last(x) = NULL => seen.rendered = NULL)
    BY <1>1, <1>4, <1>8 DEF InPlace, Same, ReqOK, ReqFor, Last
  <2>2. CASE kept[x] # NULL
    <3>1. unit'[x] = kept[x] /\ kept'[x] = NULL
      BY <1>1, <1>8, <2>2 DEF Disk, TypeOK
    <3> QED BY <2>1, <3>1
  <2>3. CASE kept[x] = NULL
    <3>1. unit' = unit /\ kept' = kept
      BY <1>1, <1>8, <2>1, <2>3 DEF Disk, diskVars
    <3> QED BY <2>1, <2>3, <3>1
  <2> QED BY <2>2, <2>3
<1> QED BY <1>1, <1>5, <1>6, <1>7, <1>8 DEF Slow

\* The commit of such a request: the row says where the file is now.
LEMMA StoreSettles ==
  ASSUME TypeOK, ReqOK, RowsOK, Solo, Files, NEW k \in Handlers, NEW x \in Services,
         Stores(k, x), req[k].alone
  PROVE  AtEnds(x)' /\ (Exists(x) /\ x \notin disturbed => InPlace(x))'
<1> DEFINE seen == req[k].seen
<1>1. /\ req[k] # NULL /\ req[k].service = x /\ req[k].step = "store" /\ req[k].op \in Slow
      /\ Exists(x) /\ Same(row[x], seen) /\ IsSlow(k, x)
  BY DEF Stores, EndsSlow, IsSlow, OfService, Solo
<1>2. row[x] \in Row /\ seen \in Row
  BY <1>1 DEF Exists, TypeOK, ReqOK, ReqFor, Slow
<1>3. Moved(k, x)
  BY <1>1 DEF Files, Halfway
<1>4. CASE StoreDeploy(k)
  <2>1. PICK m \in Row : /\ row' = [row EXCEPT ![x] = m]
                         /\ m.archived = row[x].archived /\ m.rendered = Render(seen)
    BY <1>1, <1>4, WriteDeployed
  <2>2. row'[x] = m
    BY <2>1 DEF TypeOK
  <2>3. req[k].op = "deploy" /\ ~m.archived /\ seen.config # NULL
    BY <1>1, <1>4, <2>1 DEF StoreDeploy, Finish, ReqOK, ReqFor, Same
  <2>4. Render(seen) # NULL
    BY <1>2, <2>3, RecordAssumption DEF Render, Text, Content, Row
  <2>5. unit[x] = Render(seen) /\ unit' = unit
    BY <1>3, <1>4, <2>3 DEF Moved, StoreDeploy, diskVars
  <2>6. row'[x] \notin {NULL, GONE}
    BY <2>2, RecordAssumption
  <2>7. refused'[x] = NULL
    BY <1>1, <1>4 DEF StoreDeploy, TypeOK
  <2> QED BY <2>1, <2>2, <2>3, <2>4, <2>5, <2>6, <2>7 DEF AtEnds, InPlace, Last
<1>8. CASE DeployRefused(k)
  <2>1. req[k].op = "deploy" /\ ~row[x].archived /\ seen.config # NULL
    BY <1>1, <1>8 DEF DeployRefused, Finish, ReqOK, ReqFor, Same
  <2>2. Render(seen) # NULL
    BY <1>2, <2>1, RecordAssumption DEF Render, Text, Content, Row
  <2>3. unit[x] = Render(seen) /\ unit' = unit /\ row' = row
    BY <1>3, <1>8, <2>1 DEF Moved, DeployRefused, diskVars
  <2>4. refused'[x] = Render(seen)
    BY <1>1, <1>8 DEF DeployRefused, TypeOK
  <2> QED BY <1>1, <2>1, <2>2, <2>3, <2>4 DEF AtEnds, InPlace, Last, Exists
<1>5. CASE StoreArchive(k)
  <2> DEFINE m == [row[x] EXCEPT !.archived = TRUE]
  <2>1. m \in Row /\ m.archived /\ m.rendered = row[x].rendered
    BY <1>2 DEF Row
  <2>2. row'[x] = m
    BY <1>1, <1>5, WriteArchived DEF TypeOK
  <2> HIDE DEF m
  <2>3. /\ unit' = unit /\ kept' = kept /\ disturbed' = disturbed /\ refused' = refused
        /\ req[k].op = "archive"
    BY <1>5 DEF StoreArchive, Finish, diskVars, history
  <2>4. row'[x] \notin {NULL, GONE}
    BY <2>1, <2>2, RecordAssumption
  <2> QED BY <1>3, <2>1, <2>2, <2>3, <2>4 DEF AtEnds, InPlace, Moved, Last
<1>6. CASE StoreRestore(k)
  <2> DEFINE m == [row[x] EXCEPT !.archived = FALSE]
  <2>1. m \in Row /\ ~m.archived /\ m.rendered = row[x].rendered
    BY <1>2 DEF Row
  <2>2. row'[x] = m
    BY <1>1, <1>6, WriteRestored DEF TypeOK
  <2> HIDE DEF m
  <2>3. /\ unit' = unit /\ kept' = kept /\ disturbed' = disturbed /\ refused' = refused
        /\ req[k].op = "restore"
    BY <1>6 DEF StoreRestore, Finish, diskVars
  <2>4. row'[x] \notin {NULL, GONE}
    BY <2>1, <2>2, RecordAssumption
  <2> QED BY <1>3, <2>1, <2>2, <2>3, <2>4 DEF AtEnds, InPlace, Moved, Last
<1>7. CASE StoreDelete(k)
  <2>1. row'[x] = GONE
    BY <1>1, <1>7 DEF StoreDelete, TypeOK
  <2>2. unit' = unit /\ kept' = kept /\ req[k].op = "delete"
    BY <1>7 DEF StoreDelete, Finish, diskVars
  <2> QED BY <1>3, <2>1, <2>2 DEF AtEnds, Exists, Moved
<1> QED BY <1>4, <1>5, <1>6, <1>7, <1>8 DEF Stores

\* Every step leaves the files where the rows and requests say.
LEMMA FilesStep ==
  ASSUME TypeOK, ReqOK, RowsOK, Solo, Files, Next PROVE Files'
<1> SUFFICES ASSUME NEW x \in Services PROVE AtEnds(x)' /\ AtRest(x)' /\ Halfway(x)'
  BY DEF Files
<1>0. /\ AtEnds(x) /\ AtRest(x) /\ Halfway(x) /\ RowKept(x)
      /\ \A g \in Handlers : IsSlow(g, x) => row[x] # NULL
  <2>1. \A y \in Services : RowKept(y)
    BY RowsKept
  <2> QED BY <2>1 DEF Files, IsSlow, OfService, Slow, ReqOK, ReqFor
<1>1. CASE GoesOn
  <2>1. \A g \in Handlers : IsSlow(g, x)' => /\ IsSlow(g, x) /\ req'[g].alone = req[g].alone /\ req'[g] # NULL
                                             /\ req'[g].op = req[g].op /\ req'[g].seen = req[g].seen
                                             /\ req'[g].step = req[g].step \/ OnDisk(g, x)
    BY <1>1 DEF GoesOn, Carried, ReqKept, IsSlow, OfService
  <2>2. CASE \E k \in Handlers : OnDisk(k, x)
    <3>1. PICK k \in Handlers : OnDisk(k, x)
      BY <2>2
    <3>2. /\ IsSlow(k, x) /\ Disk(k) /\ req[k] \in Request
          /\ row' = row /\ disturbed' = disturbed /\ refused' = refused
      BY <3>1 DEF OnDisk, Disk, history, IsSlow, OfService, TypeOK
    <3>3. IsSlow(k, x)' /\ req'[k].step = "store"
      <4> DEFINE r == [req[k] EXCEPT !.step = "store"]
      <4>1. r \in Request /\ r.op = req[k].op /\ r.service = req[k].service /\ r.step = "store"
        BY <3>2 DEF Request
      <4>2. req'[k] = r
        BY <3>2 DEF Disk, TypeOK
      <4> HIDE DEF r
      <4> QED BY <3>2, <4>1, <4>2, RecordAssumption DEF IsSlow, OfService
    <3>4. AtRest(x)'
      BY <3>3 DEF AtRest
    <3>5. CASE req[k].alone
      <4>1. Exists(x) /\ \A g \in Handlers : IsSlow(g, x) => g = k
        BY <3>2, <3>5 DEF Solo
      <4>2. Moved(k, x)'
        BY <3>2, <3>5, DiskMoves
      <4>3. Halfway(x)'
        BY <2>1, <4>1, <4>2 DEF Halfway
      <4>4. AtEnds(x)'
        BY <3>2, <4>1 DEF AtEnds, Exists
      <4> QED BY <3>4, <4>3, <4>4
    <3>6. CASE ~req[k].alone
      <4>1. x \in disturbed /\ row[x] # NULL
        BY <1>0, <3>2, <3>6 DEF Solo
      <4>2. \A g \in Handlers : IsSlow(g, x)' => ~req'[g].alone
        BY <2>1, <3>2, <3>6 DEF Solo
      <4> QED BY <3>2, <3>4, <4>1, <4>2 DEF AtEnds, Halfway
    <3> QED BY <3>5, <3>6
  <2>3. CASE \E k \in Handlers : Stores(k, x)
    <3>1. PICK k \in Handlers : Stores(k, x)
      BY <2>3
    <3>2. IsSlow(k, x) /\ req'[k] = NULL /\ ~IsSlow(k, x)'
      BY <3>1 DEF Stores, EndsSlow, IsSlow, OfService
    <3>3. CASE req[k].alone
      <4>1. \A g \in Handlers : IsSlow(g, x) => g = k
        BY <3>2, <3>3 DEF Solo
      <4>2. Halfway(x)'
        BY <2>1, <3>2, <4>1 DEF Halfway
      <4> QED BY <3>1, <3>3, <4>2, StoreSettles DEF AtRest
    <3>4. CASE ~req[k].alone
      <4>1. x \in disturbed /\ row'[x] # NULL
        BY <1>0, <3>2, <3>4 DEF Solo, RowKept
      <4>2. disturbed' = disturbed
        BY <3>1, <3>4 DEF Stores, StoreDeploy, DeployRefused, StoreArchive, StoreRestore, StoreDelete, Repair, history
      <4>3. \A g \in Handlers : IsSlow(g, x)' => ~req'[g].alone
        BY <2>1, <3>2, <3>4 DEF Solo
      <4> QED BY <4>1, <4>2, <4>3 DEF AtEnds, AtRest, Halfway
    <3> QED BY <3>3, <3>4
  <2>4. CASE /\ ~ \E k \in Handlers : OnDisk(k, x)
             /\ ~ \E k \in Handlers : Stores(k, x)
    <3>1. /\ Kin(x) /\ unit'[x] = unit[x] /\ kept'[x] = kept[x]
          /\ x \in disturbed => x \in disturbed'
          /\ refused'[x] = refused[x]
          /\ \A g \in Handlers : EndsSlow(g, x) => x \in disturbed'
      BY <1>1, <2>4 DEF GoesOn
    <3>2. AtEnds(x)'
      BY <1>0, <3>1 DEF AtEnds, Kin, RowKept
    <3>3. AtRest(x)'
      <4> SUFFICES ASSUME (/\ Exists(x) /\ x \notin disturbed
                           /\ \A h \in Handlers : IsSlow(h, x) => req[h].step = "disk")'
                   PROVE  InPlace(x)'
        BY DEF AtRest
      <4>1. CASE Exists(x)
        <5>1. ASSUME NEW h \in Handlers, IsSlow(h, x) PROVE req[h].step = "disk"
          <6>1. CASE req'[h] = NULL
            <7>1. req[h].step \in {"disk", "store"}
              BY <5>1 DEF IsSlow, OfService, TypeOK, Request
            <7>2. ~EndsSlow(h, x)
              BY <3>1
            <7> QED BY <5>1, <6>1, <7>1, <7>2 DEF EndsSlow
          <6>2. CASE req'[h] # NULL
            <7>1. IsSlow(h, x)'
              BY <1>1, <5>1, <6>2 DEF GoesOn, Carried, ReqKept, IsSlow, OfService
            <7> QED BY <2>1, <2>4, <7>1
          <6> QED BY <6>1, <6>2
        <5>2. InPlace(x)
          BY <1>0, <3>1, <4>1, <5>1 DEF AtRest
        <5> QED BY <3>1, <4>1, <5>2 DEF Kin, Same, InPlace, Last
      <4>2. CASE ~Exists(x)
        <5>1. row[x] = NULL /\ row'[x].archived = FALSE /\ row'[x].rendered = NULL
          BY <3>1, <4>2 DEF Kin
        <5> QED BY <1>0, <3>1, <5>1 DEF AtEnds, InPlace, Last
      <4> QED BY <4>1, <4>2
    <3>4. Halfway(x)'
      <4> SUFFICES ASSUME NEW h \in Handlers, (IsSlow(h, x) /\ req[h].alone /\ req[h].step = "store")'
                   PROVE  Moved(h, x)'
        BY DEF Halfway
      <4>1. /\ IsSlow(h, x) /\ req[h].alone /\ req[h].step = "store"
            /\ req'[h].op = req[h].op /\ req'[h].seen = req[h].seen
        BY <2>1, <2>4
      <4>2. Moved(h, x) /\ Exists(x)
        BY <1>0, <4>1 DEF Halfway, Solo
      <4>3. row'[x].rendered = row[x].rendered
        BY <3>1, <4>2 DEF Kin, Same
      <4>4. req[h].op \in Slow
        BY <4>1 DEF IsSlow
      <4> QED BY <3>1, <4>1, <4>2, <4>3, <4>4 DEF Moved, Last, Slow
    <3> QED BY <3>2, <3>3, <3>4
  <2> QED BY <2>2, <2>3, <2>4
<1>2. CASE Begins
  <2>1. PICK h \in Handlers, op \in Slow \cup Quick, s \in Services, p \in Payload, seen \in Row \cup {NULL} :
          Begun(h, op, s, p, seen)
    BY <1>2 DEF Begins
  <2>2. /\ req[h] = NULL /\ req'[h].op = op /\ (op \in Slow => req'[h].step = "disk")
        /\ row' = row /\ unit' = unit /\ kept' = kept /\ refused' = refused
    BY <2>1, BegunNew
  <2>3. disturbed \subseteq disturbed'
    BY <2>1 DEF Begun, AcceptedAs
  <2>4. \A g \in Handlers \ {h} : IsSlow(g, x)' <=> IsSlow(g, x)
    BY <2>1, BegunOthers
  <2>5. \A g \in Handlers \ {h} : IsSlow(g, x) =>
          /\ req'[g].op = req[g].op /\ req'[g].seen = req[g].seen /\ req'[g].step = req[g].step
          /\ req'[g].alone => req[g].alone
    <3> SUFFICES ASSUME NEW g \in Handlers \ {h}, IsSlow(g, x)
                 PROVE  /\ req'[g].op = req[g].op /\ req'[g].seen = req[g].seen /\ req'[g].step = req[g].step
                        /\ req'[g].alone => req[g].alone
      OBVIOUS
    <3>1. req'[g] # NULL
      BY <2>4 DEF IsSlow, OfService
    <3> QED BY <2>1, <3>1, BegunOthers
  <2>6. ~IsSlow(h, x)
    BY <2>2 DEF IsSlow, OfService
  <2>7. IsSlow(h, x)' => req'[h].step = "disk"
    BY <2>2 DEF IsSlow
  <2>8. AtEnds(x)'
    BY <1>0, <2>2, <2>3 DEF AtEnds
  <2>9. AtRest(x)'
    BY <1>0, <2>2, <2>3, <2>4, <2>5, <2>6 DEF AtRest, InPlace, Last, Exists
  <2>10. Halfway(x)'
    <3> SUFFICES ASSUME NEW g \in Handlers, (IsSlow(g, x) /\ req[g].alone /\ req[g].step = "store")'
                 PROVE  Moved(g, x)'
      BY DEF Halfway
    <3>1. g # h /\ IsSlow(g, x)
      BY <2>4, <2>7
    <3>2. Moved(g, x) /\ req[g].op \in Slow
      BY <1>0, <2>5, <3>1 DEF Halfway, IsSlow
    <3> QED BY <2>2, <2>3, <2>5, <3>1, <3>2 DEF Moved, Last, Slow
  <2> QED BY <2>8, <2>9, <2>10
<1> QED BY <1>1, <1>2, GoesOnOrBegins


-----------------------------------------------------------------------------
(***************************************************************************)
(* Addresses: host and port together.                                      *)
(***************************************************************************)
Cedes(x) == Exists(x)' => /\ Exists(x) /\ Address(row'[x]) = Address(row[x])
                          /\ ~row'[x].archived => ~row[x].archived

\* A step by which no service takes an address, and no request is accepted.
LEMMA NoneTaken ==
  ASSUME TypeOK, Claims, AddressUnique, \A g \in Handlers : ReqKept(g), raced \subseteq raced',
         \A x \in Services : Cedes(x)
  PROVE  Claims' /\ AddressUnique'
<1>1. \A x \in Services : Live(x)' => Live(x) /\ Address(row'[x]) = Address(row[x])
  BY DEF Cedes, Live
<1>2. AddressUnique'
  BY <1>1 DEF AddressUnique
<1>3. Claims'
  <2> SUFFICES ASSUME NEW g \in Handlers, req'[g] # NULL, req'[g].op \in {"create", "update", "restore"},
                      Taken(req[g].service, Address(req[g].payload))'
               PROVE  Address(req'[g].payload) \in raced'
    BY DEF Claims
  <2> DEFINE s == req[g].service  a == Address(req[g].payload)
  <2>1. req[g] # NULL /\ req'[g].service = s /\ req'[g].payload = req[g].payload /\ req'[g].op = req[g].op
        /\ s \in Services
    BY DEF ReqKept, TypeOK, Request
  <2>2. Taken(s, a) => a \in raced
    BY <2>1 DEF Claims
  <2>3. Taken(s, a)
    BY <1>1, <2>1 DEF Taken
  <2> QED BY <2>1, <2>2, <2>3
<1> QED BY <1>2, <1>3

\* A service takes an address that its request was free to take, or that is
\* known to be disputed.
LEMMA OneTaken ==
  ASSUME TypeOK, Claims, AddressUnique, NEW h \in Handlers, NEW t \in Services, NEW b,
         req[h] # NULL, req[h].service = t, req'[h] = NULL,
         \A g \in Handlers : ReqKept(g),
         \A x \in Services \ {t} : row'[x] = row[x],
         Exists(t)' => Address(row'[t]) = b,
         raced \subseteq raced', Taken(t, b) => b \in raced', Contested(h, b) => b \in raced'
  PROVE  Claims' /\ AddressUnique'
<1>1. \A x \in Services \ {t} : (Exists(x)' <=> Exists(x)) /\ (Live(x)' <=> Live(x))
  BY DEF Live, Exists
<1>2. Live(t)' => Address(row'[t]) = b
  BY DEF Live
<1>4. AddressUnique'
  <2> SUFFICES ASSUME NEW x \in Services, NEW y \in Services, x # y, Live(x)', Live(y)',
                      Address(row'[x]) = Address(row'[y])
               PROVE  Address(row'[x]) \in raced'
    BY DEF AddressUnique
  <2>1. CASE x # t /\ y # t
    BY <1>1, <2>1 DEF AddressUnique
  <2>2. CASE x = t \/ y = t
    <3>1. PICK z \in Services \ {t} : Live(z)' /\ Address(row'[z]) = b /\ Address(row'[x]) = b
      BY <1>2, <2>2
    <3>2. Taken(t, b)
      BY <1>1, <3>1 DEF Taken
    <3> QED BY <3>1, <3>2
  <2> QED BY <2>1, <2>2
<1>5. Claims'
  <2> SUFFICES ASSUME NEW g \in Handlers, req'[g] # NULL, req'[g].op \in {"create", "update", "restore"},
                      Taken(req[g].service, Address(req[g].payload))'
               PROVE  Address(req'[g].payload) \in raced'
    BY DEF Claims
  <2> DEFINE s == req[g].service  a == Address(req[g].payload)
  <2>1. /\ req[g] # NULL /\ req'[g].service = s /\ req'[g].payload = req[g].payload
        /\ req'[g].op = req[g].op /\ g # h /\ s \in Services
    BY DEF ReqKept, TypeOK, Request
  <2>2. Taken(s, a) => a \in raced
    BY <2>1 DEF Claims
  <2>3. PICK u \in Services \ {s} : Live(u)' /\ Address(row'[u]) = a
    BY <2>1 DEF Taken
  <2>4. CASE u = t
    <3>1. a = b
      BY <1>2, <2>3, <2>4
    <3>2. Contested(h, b)
      BY <2>1, <3>1 DEF Contested
    <3> QED BY <2>1, <3>1, <3>2
  <2>5. CASE u # t
    <3>1. Taken(s, a)
      BY <1>1, <2>3, <2>5 DEF Taken
    <3> QED BY <2>1, <2>2, <3>1
  <2> QED BY <2>4, <2>5
<1> QED BY <1>4, <1>5

\* A request is accepted: its address is not in use.
LEMMA NewClaim ==
  ASSUME TypeOK, Claims, AddressUnique, NEW h \in Handlers, NEW op, NEW s \in Services, NEW p, NEW seen,
         Begun(h, op, s, p, seen),
         op \in {"create", "update", "restore"} => ~Taken(s, Address(p))
  PROVE  Claims' /\ AddressUnique'
<1>1. /\ req[h] = NULL /\ req'[h].op = op /\ req'[h].service = s /\ req'[h].payload = p
      /\ row' = row /\ raced' = raced
  BY BegunNew
<1>2. AddressUnique'
  BY <1>1 DEF AddressUnique, Live, Exists
<1>3. Claims'
  <2> SUFFICES ASSUME NEW g \in Handlers, req'[g] # NULL, req'[g].op \in {"create", "update", "restore"},
                      Taken(req[g].service, Address(req[g].payload))'
               PROVE  Address(req'[g].payload) \in raced'
    BY DEF Claims
  <2>1. CASE g = h
    BY <1>1, <2>1 DEF Taken, Live, Exists
  <2>2. CASE g # h
    <3>1. req[g] # NULL /\ req'[g].service = req[g].service /\ req'[g].payload = req[g].payload /\ req'[g].op = req[g].op
      BY <2>2, BegunOthers
    <3> QED BY <1>1, <3>1 DEF Claims, Taken, Live, Exists
  <2> QED BY <2>1, <2>2
<1> QED BY <1>2, <1>3

\* No address is taken twice without being known as disputed.
LEMMA ClaimsStep ==
  ASSUME TypeOK, ReqOK, RowsOK, Claims, AddressUnique, Next PROVE Claims' /\ AddressUnique'
<1>1. ASSUME NEW p \in Profiles, CreateProfile(p) PROVE Claims' /\ AddressUnique'
  <2>1. \A g \in Handlers : ReqKept(g)
    BY <1>1 DEF CreateProfile, Finish, ReqKept
  <2>2. \A x \in Services : Cedes(x)
    BY <1>1 DEF Cedes, CreateProfile, Finish, Exists
  <2>3. raced \subseteq raced'
    BY <1>1 DEF CreateProfile, history
  <2> QED BY <2>1, <2>2, <2>3, NoneTaken
<1>2. ASSUME NEW p \in Profiles, DeleteProfile(p) PROVE Claims' /\ AddressUnique'
  <2>1. \A g \in Handlers : ReqKept(g)
    BY <1>2 DEF DeleteProfile, Finish, ReqKept
  <2>2. \A x \in Services : Cedes(x)
    BY <1>2 DEF Cedes, DeleteProfile, Finish, Exists
  <2>3. raced \subseteq raced'
    BY <1>2 DEF DeleteProfile, history
  <2> QED BY <2>1, <2>2, <2>3, NoneTaken
<1>3. ASSUME NEW p \in Profiles, NEW s \in Services, NEW c \in Configs, SelectProfile(s, p, c) PROVE Claims' /\ AddressUnique'
  <2>1. \A g \in Handlers : ReqKept(g)
    BY <1>3 DEF SelectProfile, Finish, ReqKept
  <2>2. row[s] \in Row /\ Exists(s)
    BY <1>3 DEF SelectProfile, Exists, TypeOK
  <2> DEFINE m == [row[s] EXCEPT !.config = c, !.source = p]
  <2>3. Address(m) = Address(row[s]) /\ m.archived = row[s].archived
    BY <2>2 DEF Row, Address
  <2>4. row' = [row EXCEPT ![s] = m]
    BY <1>3 DEF SelectProfile
  <2> HIDE DEF m
  <2>5. \A x \in Services : Cedes(x)
    BY <2>2, <2>3, <2>4 DEF Cedes, Exists, TypeOK
  <2>6. raced' = raced
    BY <1>3 DEF SelectProfile, history
  <2> QED BY <2>1, <2>5, <2>6, NoneTaken
<1>4. ASSUME NEW s \in Services, NEW c \in Configs, UpdateLaunchConfig(s, c) PROVE Claims' /\ AddressUnique'
  <2>1. \A g \in Handlers : ReqKept(g)
    BY <1>4 DEF UpdateLaunchConfig, Finish, ReqKept
  <2>2. row[s] \in Row /\ Exists(s)
    BY <1>4 DEF UpdateLaunchConfig, Exists, TypeOK
  <2> DEFINE m == [row[s] EXCEPT !.config = c]
  <2>3. Address(m) = Address(row[s]) /\ m.archived = row[s].archived
    BY <2>2 DEF Row, Address
  <2>4. row' = [row EXCEPT ![s] = m]
    BY <1>4 DEF UpdateLaunchConfig
  <2> HIDE DEF m
  <2>5. \A x \in Services : Cedes(x)
    BY <2>2, <2>3, <2>4 DEF Cedes, Exists, TypeOK
  <2>6. raced' = raced
    BY <1>4 DEF UpdateLaunchConfig, history
  <2> QED BY <2>1, <2>5, <2>6, NoneTaken
<1>5. ASSUME NEW h \in Handlers, NEW s \in Services, NEW p \in Forms, Create(h, s, p) PROVE Claims' /\ AddressUnique'
  <2>1. Begun(h, "create", s, p, NULL)
    BY <1>5, Accepted DEF Create, Begun
  <2> QED BY <1>5, <2>1, NewClaim DEF Create
<1>6. ASSUME NEW h \in Handlers, NEW s \in Services, NEW p \in Forms, Update(h, s, p) PROVE Claims' /\ AddressUnique'
  <2>1. Begun(h, "update", s, p, row[s])
    BY <1>6, Accepted DEF Update, Begun
  <2> QED BY <1>6, <2>1, NewClaim DEF Update
<1>7. ASSUME NEW h \in Handlers, NEW s \in Services, NEW op \in Slow \cup {"benchmark"}, Begin(h, op, s) PROVE Claims' /\ AddressUnique'
  <2>1. Exists(s)
    BY <1>7 DEF Begin, Allowed, Deployable, Measurable, Restorable, Live, Slow
  <2>2. Begun(h, op, s, PayloadOf(row[s]), row[s])
    BY <1>7, <2>1, Accepted DEF Begin, Begun
  <2>3. op \in {"create", "update", "restore"} => ~Taken(s, Address(PayloadOf(row[s])))
    BY <1>7 DEF Begin, Allowed, Restorable, Slow, PayloadOf, Address
  <2> QED BY <2>2, <2>3, NewClaim
<1>8. ASSUME NEW h \in Handlers, Disk(h) PROVE Claims' /\ AddressUnique'
  <2>1. \A g \in Handlers : ReqKept(g)
    <3>1. \A g \in Handlers, y \in Services : ~EndsSlow(g, y)
      BY <1>8 DEF Disk, EndsSlow, IsSlow, OfService
    <3> DEFINE r == [req[h] EXCEPT !.step = "store"]
    <3>2. req[h] \in Request /\ req[h] # NULL /\ req' = [req EXCEPT ![h] = r]
      BY <1>8 DEF Disk, TypeOK
    <3>3. /\ r.op = req[h].op /\ r.service = req[h].service /\ r.payload = req[h].payload
          /\ r.seen = req[h].seen /\ r.step = "store"
      BY <3>2 DEF Request
    <3> HIDE DEF r
    <3> QED BY <3>2, <3>3 DEF ReqKept, TypeOK
  <2>2. \A x \in Services : Cedes(x)
    BY <1>8 DEF Cedes, Disk, Finish, Exists
  <2>3. raced \subseteq raced'
    BY <1>8 DEF Disk, history
  <2> QED BY <2>1, <2>2, <2>3, NoneTaken
<1>9. ASSUME NEW h \in Handlers, DiskFails(h) PROVE Claims' /\ AddressUnique'
  <2>1. \A g \in Handlers : ReqKept(g)
    BY <1>9 DEF DiskFails, Finish, ReqKept
  <2>2. \A x \in Services : Cedes(x)
    BY <1>9 DEF Cedes, DiskFails, Finish, Exists
  <2>3. raced \subseteq raced'
    BY <1>9 DEF DiskFails, history
  <2> QED BY <2>1, <2>2, <2>3, NoneTaken
<1>10. ASSUME NEW h \in Handlers, StoreCreate(h) PROVE Claims' /\ AddressUnique'
  <2>1. \A g \in Handlers : ReqKept(g)
    BY <1>10 DEF StoreCreate, Finish, ReqKept
  <2> DEFINE t == req[h].service
  <2>2. /\ req[h] # NULL /\ t \in Services /\ req[h].payload \in Payload /\ req'[h] = NULL
        /\ req[h].op \in {"create", "update", "restore"}
    BY <1>10 DEF StoreCreate, Finish, TypeOK, Request
  <2>3. LET a == Address(req[h].payload) IN Taken(t, a) => a \in raced
    BY <2>2 DEF Claims
  <2>4. raced \subseteq raced'
    BY <1>10 DEF StoreCreate, Claim
  <2>5. ASSUME row' = row PROVE Claims' /\ AddressUnique'
    <3>1. \A x \in Services : Cedes(x)
      BY <2>5 DEF Cedes, Exists
    <3> QED BY <2>1, <2>4, <3>1, NoneTaken
  <2>6. ASSUME row[t] = NULL PROVE Claims' /\ AddressUnique'
    <3>1. row' = [row EXCEPT ![t] = NewRow(req[h].payload)]
      BY <1>10, <2>6 DEF StoreCreate
    <3>2. Address(row'[t]) = Address(req[h].payload) /\ \A x \in Services \ {t} : row'[x] = row[x]
      BY <2>2, <3>1 DEF TypeOK, NewRow, Address
    <3>3. Contested(h, Address(req[h].payload)) => Address(req[h].payload) \in raced'
      BY <1>10 DEF StoreCreate, Claim
    <3> QED BY <2>1, <2>2, <2>3, <2>4, <3>2, <3>3, OneTaken
  <2> QED BY <1>10, <2>5, <2>6 DEF StoreCreate
<1>11. ASSUME NEW h \in Handlers, StoreUpdate(h) PROVE Claims' /\ AddressUnique'
  <2>1. \A g \in Handlers : ReqKept(g)
    BY <1>11 DEF StoreUpdate, Finish, ReqKept
  <2> DEFINE t == req[h].service
  <2>2. /\ req[h] # NULL /\ t \in Services /\ req[h].payload \in Payload /\ req'[h] = NULL
        /\ req[h].op \in {"create", "update", "restore"}
    BY <1>11 DEF StoreUpdate, Finish, TypeOK, Request
  <2>3. LET a == Address(req[h].payload) IN Taken(t, a) => a \in raced
    BY <2>2 DEF Claims
  <2>4. raced \subseteq raced'
    BY <1>11 DEF StoreUpdate, Claim
  <2>5. ASSUME row' = row PROVE Claims' /\ AddressUnique'
    <3>1. \A x \in Services : Cedes(x)
      BY <2>5 DEF Cedes, Exists
    <3> QED BY <2>1, <2>4, <3>1, NoneTaken
  <2>6. ASSUME Exists(t) PROVE Claims' /\ AddressUnique'
    <3>1. PICK m \in Row : row' = [row EXCEPT ![t] = m]
      BY <1>11, <2>6, WriteUpdated
    <3> DEFINE a == Address(req[h].payload)
               b == Address(row'[t])
    <3>2. \A x \in Services \ {t} : row'[x] = row[x]
      BY <3>1 DEF TypeOK
    <3>3. raced' = IF Contested(h, b) \/ b # a THEN raced \cup {b} ELSE raced
      BY <1>11, <2>6 DEF StoreUpdate, Claim
    <3>4. Taken(t, b) => b \in raced'
      <4>1. CASE b = a
        BY <2>3, <2>4, <4>1
      <4>2. CASE b # a
        BY <3>3, <4>2
      <4> QED BY <4>1, <4>2
    <3>5. Contested(h, b) => b \in raced'
      BY <3>3
    <3> HIDE DEF a
    <3> QED BY <2>1, <2>2, <2>4, <3>2, <3>4, <3>5, OneTaken
  <2>7. ~Exists(t) => row' = row
    BY <1>11 DEF StoreUpdate, Write
  <2> QED BY <2>5, <2>6, <2>7
<1>12. ASSUME NEW h \in Handlers, StoreDeploy(h) PROVE Claims' /\ AddressUnique'
  <2>1. \A g \in Handlers : ReqKept(g)
    BY <1>12 DEF StoreDeploy, Finish, ReqKept
  <2> DEFINE t == req[h].service
  <2>2. req[h] # NULL /\ t \in Services
    BY <1>12 DEF StoreDeploy, Finish, TypeOK, Request
  <2>3. \A x \in Services : Cedes(x)
    <3>1. CASE Exists(t)
      <4>1. PICK m \in Row : /\ row' = [row EXCEPT ![t] = m]
                             /\ Address(m) = Address(row[t]) /\ m.archived = row[t].archived
        BY <1>12, <3>1, WriteDeployed
      <4> QED BY <2>2, <3>1, <4>1 DEF Cedes, Exists, TypeOK
    <3>2. CASE ~Exists(t)
      BY <1>12, <3>2 DEF StoreDeploy, Write, Cedes, Exists
    <3> QED BY <3>1, <3>2
  <2>4. raced' = raced
    BY <1>12 DEF StoreDeploy, history
  <2> QED BY <2>1, <2>3, <2>4, NoneTaken
<1>13. ASSUME NEW h \in Handlers, DeployRefused(h) PROVE Claims' /\ AddressUnique'
  <2>1. \A g \in Handlers : ReqKept(g)
    BY <1>13 DEF DeployRefused, Finish, ReqKept
  <2>2. \A x \in Services : Cedes(x)
    BY <1>13 DEF Cedes, DeployRefused, Finish, Exists
  <2>3. raced \subseteq raced'
    BY <1>13 DEF DeployRefused, history
  <2> QED BY <2>1, <2>2, <2>3, NoneTaken
<1>14. ASSUME NEW h \in Handlers, StoreArchive(h) PROVE Claims' /\ AddressUnique'
  <2>1. \A g \in Handlers : ReqKept(g)
    BY <1>14 DEF StoreArchive, Finish, ReqKept
  <2> DEFINE t == req[h].service
  <2>2. req[h] # NULL /\ t \in Services
    BY <1>14 DEF StoreArchive, Finish, TypeOK, Request
  <2>3. \A x \in Services : Cedes(x)
    <3>1. CASE Exists(t)
      <4>1. row[t] \in Row
        BY <2>2, <3>1 DEF Exists, TypeOK
      <4> DEFINE m == [row[t] EXCEPT !.archived = TRUE]
      <4>2. Address(m) = Address(row[t]) /\ m.archived
        BY <4>1 DEF Row, Address
      <4>3. row' = [row EXCEPT ![t] = m]
        BY <1>14, <3>1, WriteArchived
      <4> HIDE DEF m, t
      <4> QED BY <2>2, <3>1, <4>2, <4>3 DEF Cedes, Exists, TypeOK
    <3>2. CASE ~Exists(t)
      BY <1>14, <3>2 DEF StoreArchive, Write, Cedes, Exists
    <3> QED BY <3>1, <3>2
  <2>4. raced' = raced
    BY <1>14 DEF StoreArchive, history
  <2> QED BY <2>1, <2>3, <2>4, NoneTaken
<1>15. ASSUME NEW h \in Handlers, StoreRestore(h) PROVE Claims' /\ AddressUnique'
  <2>1. \A g \in Handlers : ReqKept(g)
    BY <1>15 DEF StoreRestore, Finish, ReqKept
  <2> DEFINE t == req[h].service
  <2>2. /\ req[h] # NULL /\ t \in Services /\ req[h].payload \in Payload /\ req'[h] = NULL
        /\ req[h].op \in {"create", "update", "restore"}
    BY <1>15 DEF StoreRestore, Finish, TypeOK, Request
  <2>3. LET a == Address(req[h].payload) IN Taken(t, a) => a \in raced
    BY <2>2 DEF Claims
  <2>4. raced \subseteq raced'
    BY <1>15 DEF StoreRestore, Claim
  <2>5. ASSUME row' = row PROVE Claims' /\ AddressUnique'
    <3>1. \A x \in Services : Cedes(x)
      BY <2>5 DEF Cedes, Exists
    <3> QED BY <2>1, <2>4, <3>1, NoneTaken
  <2>6. ASSUME Exists(t) PROVE Claims' /\ AddressUnique'
    <3>1. row' = [row EXCEPT ![t].archived = FALSE]
      BY <1>15, <2>6, WriteRestored
    <3>2. row[t] \in Row
      BY <2>2, <2>6 DEF Exists, TypeOK
    <3> DEFINE m == [row[t] EXCEPT !.archived = FALSE]
               a == Address(req[h].payload)
               b == Address(row[t])
    <3>3. Address(m) = b
      BY <3>2 DEF Row, Address
    <3>4. row' = [row EXCEPT ![t] = m]
      BY <3>1
    <3> HIDE DEF m
    <3>5. Address(row'[t]) = b /\ \A x \in Services \ {t} : row'[x] = row[x]
      BY <2>2, <3>3, <3>4 DEF TypeOK
    <3>6. raced' = IF Contested(h, b) \/ b # a THEN raced \cup {b} ELSE raced
      BY <1>15, <2>6 DEF StoreRestore, Claim
    <3>7. Taken(t, b) => b \in raced'
      <4>1. CASE b = a
        BY <2>3, <2>4, <4>1
      <4>2. CASE b # a
        BY <3>6, <4>2
      <4> QED BY <4>1, <4>2
    <3>8. Contested(h, b) => b \in raced'
      BY <3>6
    <3> HIDE DEF b
    <3> QED BY <2>1, <2>2, <2>4, <3>5, <3>7, <3>8, OneTaken
  <2>7. ~Exists(t) => row' = row
    BY <1>15 DEF StoreRestore, Write
  <2> QED BY <2>5, <2>6, <2>7
<1>16. ASSUME NEW h \in Handlers, StoreDelete(h) PROVE Claims' /\ AddressUnique'
  <2>1. \A g \in Handlers : ReqKept(g)
    BY <1>16 DEF StoreDelete, Finish, ReqKept
  <2>2. \A x \in Services : Cedes(x)
    BY <1>16 DEF Cedes, StoreDelete, Exists, TypeOK
  <2>3. raced' = raced
    BY <1>16 DEF StoreDelete
  <2> QED BY <2>1, <2>2, <2>3, NoneTaken
<1>17. ASSUME NEW h \in Handlers, StoreBenchmark(h) PROVE Claims' /\ AddressUnique'
  <2>1. \A g \in Handlers : ReqKept(g)
    BY <1>17 DEF StoreBenchmark, Finish, ReqKept
  <2>2. \A x \in Services : Cedes(x)
    BY <1>17 DEF Cedes, StoreBenchmark, Finish, Exists
  <2>3. raced \subseteq raced'
    BY <1>17 DEF StoreBenchmark, history
  <2> QED BY <2>1, <2>2, <2>3, NoneTaken
<1>18. ASSUME NEW H \in SUBSET Handlers, CutOff(H) PROVE Claims' /\ AddressUnique'
  <2>1. \A g \in Handlers : ReqKept(g)
    BY <1>18 DEF CutOff, Finish, ReqKept
  <2>2. \A x \in Services : Cedes(x)
    BY <1>18 DEF Cedes, CutOff, Finish, Exists
  <2>3. raced \subseteq raced'
    BY <1>18 DEF CutOff, history
  <2> QED BY <2>1, <2>2, <2>3, NoneTaken
<1>19. ASSUME NEW h \in Handlers, CommitFails(h) PROVE Claims' /\ AddressUnique'
  BY <1>18, <1>19 DEF CommitFails
<1>20. ASSUME Crash PROVE Claims' /\ AddressUnique'
  BY <1>18, <1>20 DEF Crash
<1> QED BY <1>1, <1>2, <1>3, <1>4, <1>5, <1>6, <1>7, <1>8, <1>9, <1>10, <1>11, <1>12, <1>13, <1>14, <1>15, <1>16, <1>17, <1>19, <1>20 DEF Next, Store


-----------------------------------------------------------------------------
(***************************************************************************)
(* The invariant.                                                          *)
(***************************************************************************)
\* The first deployments are recorded completely.
LEMMA InitInv == ASSUME Init PROVE IInv
<1>1. PICK c \in Configs :
        LET r(s) == Recorded([NewRow(FirstPayload[s]) EXCEPT !.config = c])
        IN /\ row = [s \in Services |-> IF s \in Deployed THEN r(s) ELSE NULL]
           /\ unit = [s \in Services |-> IF s \in Deployed THEN r(s).rendered ELSE NULL]
           /\ kept = [s \in Services |-> NULL]
           /\ profiles = {} /\ jobs = {}
           /\ req = [h \in Handlers |-> NULL]
           /\ mixed = {} /\ disturbed = {} /\ raced = {}
           /\ refused = [s \in Services |-> NULL]
           /\ requests = 0 /\ crashes = 0
  BY DEF Init
<1> DEFINE first(s) == Recorded([NewRow(FirstPayload[s]) EXCEPT !.config = c])
<1>2. ASSUME NEW s \in Deployed
      PROVE  /\ first(s) \in Row /\ Address(first(s)) = Address(FirstPayload[s])
             /\ ~first(s).archived /\ first(s).applied = c /\ first(s).appliedService \in Payload
             /\ first(s).rendered = Text(c, first(s).appliedService)
             /\ first(s).rendered \in Content
  <2> DEFINE p == FirstPayload[s]
             new == [NewRow(p) EXCEPT !.config = c]
  <2>1. p.host \in Hosts /\ p.port \in Ports /\ p.paths \in Paths
    BY DEF Payload
  <2> HIDE DEF p
  <2>2. /\ new \in Row /\ new.host = p.host /\ new.port = p.port /\ new.config = c
        /\ ~new.archived /\ new.source = NULL
    BY <2>1 DEF NewRow, Row
  <2> HIDE DEF new
  <2>3. /\ Render(new) = Text(c, PayloadOf(new)) /\ Render(new) \in Content
        /\ PayloadOf(new) \in Payload
    BY <2>2 DEF Render, Text, PayloadOf, Payload, Content, Row
  <2>4. /\ Recorded(new) \in Row /\ Recorded(new).host = p.host /\ Recorded(new).port = p.port
        /\ ~Recorded(new).archived /\ Recorded(new).applied = c
        /\ Recorded(new).appliedService = PayloadOf(new) /\ Recorded(new).rendered = Render(new)
    BY <2>2, <2>3 DEF Recorded, Row
  <2> QED BY <2>3, <2>4 DEF new, p, Address
<1>3. /\ \A s \in Deployed : row[s] = first(s) /\ unit[s] = first(s).rendered
      /\ \A s \in Services \ Deployed : row[s] = NULL /\ unit[s] = NULL
      /\ \A s \in Services : kept[s] = NULL
      /\ \A h \in Handlers : req[h] = NULL
  BY <1>1
<1>4. row = [s \in Services |-> row[s]] /\ unit = [s \in Services |-> unit[s]]
  BY <1>1
<1> HIDE DEF first
<1>5. \A s \in Services : /\ row[s] \in Row \cup {NULL} /\ unit[s] \in Content \cup {NULL}
                          /\ Exists(s) <=> s \in Deployed
  BY <1>2, <1>3, RecordAssumption DEF Exists
<1>6. TypeOK
  <2>1. row \in [Services -> Row \cup {NULL, GONE}] /\ unit \in [Services -> Content \cup {NULL}]
    BY <1>4, <1>5
  <2> QED BY <1>1, <2>1 DEF TypeOK
<1>7. ReqOK /\ Solo /\ WholeSeen /\ WholeJobs /\ Claims
  BY <1>1, <1>3 DEF ReqOK, ReqFor, Solo, WholeSeen, WholeJobs, Claims, IsSlow, OfService
<1>11. ASSUME NEW s \in Deployed
       PROVE  /\ row[s] \notin {NULL, GONE} /\ Address(row[s]) = Address(FirstPayload[s])
              /\ row[s].applied = c /\ row[s].appliedService \in Payload /\ ~row[s].archived
              /\ row[s].rendered = Text(row[s].applied, row[s].appliedService)
              /\ unit[s] = row[s].rendered /\ row[s].rendered \in Content
  <2>1. row[s] = first(s) /\ unit[s] = first(s).rendered
    BY <1>3
  <2>2. first(s) \in Row
    BY <1>2
  <2>3. row[s] \notin {NULL, GONE}
    BY <2>1, <2>2, RecordAssumption
  <2> QED BY <2>1, <2>3, <1>2
<1>8. RowsOK /\ WholeRows
  <2> SUFFICES ASSUME NEW s \in Services, Exists(s) PROVE Settled(row[s]) /\ WholeRow(row[s])
    BY DEF RowsOK, WholeRows
  <2>1. s \in Deployed
    BY <1>5
  <2>2. row[s].applied # NULL /\ row[s].appliedService # NULL
    BY <1>11, <2>1
  <2>3. row[s].rendered # NULL
    BY <1>11, <2>1, RecordAssumption
  <2>4. row[s].rendered = Text(row[s].applied, row[s].appliedService)
    BY <1>11, <2>1
  <2> QED BY <2>2, <2>3, <2>4 DEF Settled, WholeRow
<1>9. Files
  <2> SUFFICES ASSUME NEW s \in Services PROVE AtEnds(s) /\ AtRest(s) /\ Halfway(s)
    BY DEF Files
  <2>1. Halfway(s)
    BY <1>3 DEF Halfway, IsSlow, OfService
  <2>2. CASE s \in Deployed
    <3>1. row[s] \notin {NULL, GONE} /\ unit[s] = row[s].rendered /\ unit[s] # NULL /\ ~row[s].archived
      BY <1>11, <2>2, RecordAssumption
    <3> QED BY <1>1, <2>1, <3>1 DEF AtEnds, AtRest, InPlace, Last
  <2>3. CASE s \notin Deployed
    BY <1>1, <1>3, <1>5, <2>1, <2>3 DEF AtEnds, AtRest
  <2> QED BY <2>2, <2>3
<1>10. AddressUnique
  <2> SUFFICES ASSUME NEW s \in Services, NEW t \in Services, s # t, Exists(s), Exists(t)
               PROVE  Address(row[s]) # Address(row[t])
    BY DEF AddressUnique, Live
  <2>1. s \in Deployed /\ t \in Deployed
    BY <1>5
  <2>2. Address(FirstPayload[s]) # Address(FirstPayload[t])
    BY <2>1, ServicesAssumption
  <2> QED BY <1>11, <2>1, <2>2
<1> QED BY <1>6, <1>7, <1>8, <1>9, <1>10 DEF IInv

\* Every step, and every stutter, keeps the invariant.
LEMMA NextInv == ASSUME IInv, [Next]_vars PROVE IInv'
<1>1. CASE Next
  <2>1. TypeOK' /\ ReqOK' /\ RowsOK' /\ Solo'
    BY <1>1, TypeStep, ReqStep, RowsStep, SoloStep DEF IInv
  <2>2. WholeRows' /\ WholeSeen' /\ WholeJobs'
    BY <1>1, WholeRowsStep, WholeSeenStep, WholeJobsStep DEF IInv
  <2>3. Files' /\ Claims' /\ AddressUnique'
    BY <1>1, FilesStep, ClaimsStep DEF IInv
  <2> QED BY <2>1, <2>2, <2>3 DEF IInv
<1>2. CASE UNCHANGED vars
  <2>1. TypeOK' /\ ReqOK' /\ RowsOK' /\ Solo'
    BY <1>2 DEF IInv, vars, diskVars, history, budgets, TypeOK, ReqOK, ReqFor, RowsOK, Solo, IsSlow, OfService, Same, Settled, Exists
  <2>2. WholeRows' /\ WholeSeen' /\ WholeJobs'
    BY <1>2 DEF IInv, vars, diskVars, history, budgets, WholeRows, WholeSeen, WholeJobs, WholeRow, Exists
  <2>3. Files'
    <3>1. row' = row /\ unit' = unit /\ kept' = kept /\ req' = req /\ disturbed' = disturbed /\ refused' = refused
      BY <1>2 DEF vars, diskVars, history
    <3>2. ASSUME NEW s \in Services PROVE AtEnds(s)' /\ AtRest(s)'
      <4>1. AtEnds(s) /\ AtRest(s)
        BY DEF IInv, Files
      <4> QED BY <3>1, <4>1 DEF AtEnds, AtRest, InPlace, Last, IsSlow, OfService, Exists
    <3>3. ASSUME NEW s \in Services, NEW h \in Handlers, IsSlow(h, s)', req'[h].alone, req'[h].step = "store"
          PROVE  Moved(h, s)'
      <4>1. Moved(h, s) /\ req[h].op \in Slow
        BY <3>1, <3>3 DEF IInv, Files, Halfway, IsSlow, OfService
      <4>2. CASE req[h].op = "deploy"
        BY <3>1, <4>1, <4>2 DEF Moved
      <4>3. CASE req[h].op = "delete"
        BY <3>1, <4>1, <4>3 DEF Moved
      <4>4. CASE req[h].op = "archive"
        BY <3>1, <4>1, <4>4 DEF Moved, Last
      <4>5. CASE req[h].op = "restore"
        BY <3>1, <4>1, <4>5 DEF Moved, Last
      <4> QED BY <4>1, <4>2, <4>3, <4>4, <4>5 DEF Slow
    <3> QED BY <3>2, <3>3 DEF Files, Halfway
  <2>4. Claims' /\ AddressUnique'
    BY <1>2 DEF IInv, vars, diskVars, history, budgets, Claims, AddressUnique, Taken, Live, Exists
  <2> QED BY <2>1, <2>2, <2>3, <2>4 DEF IInv
<1> QED BY <1>1, <1>2

\* The conjunction of what is known of rows, requests, files and addresses is
\* an invariant.
THEOREM ServicesInvariant == Spec => []IInv
<1>1. Init => IInv
  BY InitInv
<1>2. IInv /\ [Next]_vars => IInv'
  BY NextInv
<1> QED BY <1>1, <1>2, PTL DEF Spec

-----------------------------------------------------------------------------
\* Every variable keeps its type: rows, files, requests and snapshots.
THEOREM TypeCorrect == Spec => []TypeOK
<1>1. IInv => TypeOK
  BY DEF IInv
<1> QED BY <1>1, ServicesInvariant, PTL

\* Between deployments the unit file is where the row says and holds the text
\* of the last deployment; while that is the recorded one, a service without
\* pending changes has in its file what a new deployment would write.
THEOREM UnitFileInPlace == Spec => []UnitFileOK
<1>1. ASSUME IInv PROVE UnitFileOK
  <2> SUFFICES ASSUME NEW s \in Services, Quiet(s)
               PROVE  /\ row[s] = GONE => unit[s] = NULL /\ kept[s] = NULL
                      /\ Exists(s) => IF row[s].archived THEN unit[s] = NULL /\ kept[s] = Last(s)
                                                         ELSE unit[s] = Last(s)
                      /\ Live(s) /\ refused[s] = NULL /\ row[s].applied # NULL /\ ~Pending(row[s]) =>
                           unit[s] = Render(row[s])
    BY DEF UnitFileOK
  <2>1. s \notin disturbed /\ \A h \in Handlers : ~IsSlow(h, s)
    BY DEF Quiet, Working, IsSlow, OfService
  <2>2. AtEnds(s) /\ AtRest(s)
    BY <1>1 DEF IInv, Files
  <2>3. row[s] = GONE => unit[s] = NULL /\ kept[s] = NULL
    BY <2>1, <2>2 DEF AtEnds
  <2>4. Exists(s) => InPlace(s)
    BY <2>1, <2>2 DEF AtRest
  <2>5. ASSUME Live(s), refused[s] = NULL, row[s].applied # NULL, ~Pending(row[s])
        PROVE  unit[s] = Render(row[s])
    <3>1. unit[s] = row[s].rendered
      BY <2>4, <2>5 DEF Live, InPlace, Last
    <3>2. row[s].rendered = Text(row[s].applied, row[s].appliedService)
      BY <1>1, <2>1, <2>5 DEF IInv, WholeRows, WholeRow, Live
    <3>3. row[s].applied = row[s].config /\ row[s].appliedService = PayloadOf(row[s])
      BY <2>5 DEF Pending
    <3> QED BY <3>1, <3>2, <3>3 DEF Render, Text, PayloadOf
  <2> QED BY <2>3, <2>4, <2>5 DEF InPlace
<1>2. IInv => UnitFileOK
  BY <1>1
<1> QED BY <1>2, ServicesInvariant, PTL

\* No two services in use share host and port, but for a pair that was stored
\* between the check and the commit of another request, or that nobody checked
\* because it was put together from the columns of two updates.
THEOREM AddressesAreUnique == Spec => []AddressUnique
<1>1. IInv => AddressUnique
  BY DEF IInv
<1> QED BY <1>1, ServicesInvariant, PTL

\* What a service calls applied and what a benchmark keeps belong together,
\* and a benchmark's profile exists.
THEOREM MeasurementsAreTraceable == Spec => []Traceable
<1>1. IInv => Traceable
  BY DEF IInv, WholeRows, WholeJobs, WholeRow, Traceable
<1> QED BY <1>1, ServicesInvariant, PTL
=============================================================================
