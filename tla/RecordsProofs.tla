--------------------------- MODULE RecordsProofs ----------------------------
(***************************************************************************)
(* Theorems about the parts that MCRecords puts together, one part at a    *)
(* time: Payload (Uploads), Install (Host), Access (Rows) and Listing      *)
(* (Pages), for every value of the constants.  Sync has SyncProofs.        *)
(***************************************************************************)
EXTENDS MCRecords, FiniteSetTheorems, SequenceTheorems, WellFoundedInduction, TLAPS

-----------------------------------------------------------------------------
(* Install: types *)

\* An archive is there only from the upload on, a process from the start on.
HostInv ==
    /\ Host!TypeOK
    /\ IsFiniteSet(archives)
    /\ \A i \in archives : pc[i] \notin {"idle", "stop", "upload"}
    /\ \A o \in orphans : pc[o[1]] = "failed"
    /\ \A i \in Installations : pc[i] = "idle" \/ request[i] \in Requests
    /\ \A p \in running : pc[p.by] \notin {"idle", "stop", "upload", "extract"}

LEMMA HostInit == Host!Init => HostInv
<1> SUFFICES ASSUME Host!Init PROVE HostInv
  OBVIOUS
<1>1. Host!TypeOK
  <2>1. /\ pc \in [Installations -> {"idle"}] /\ request \in [Installations -> {Null}]
        /\ home \in [Files -> {Null}] /\ installFailed \in [Host!FaultKinds -> {0}]
    BY DEF Host!Init
  <2>2. 0 \in 0..InstallMaxFailures
    BY InstallAssumptions DEF Host!Assumptions
  <2> QED BY <2>1, <2>2 DEF Host!Init, Host!TypeOK
<1>2. archives = {} /\ orphans = {} /\ running = {} /\ \A i \in Installations : pc[i] = "idle"
  BY DEF Host!Init
<1> QED BY <1>1, <1>2, FS_EmptySet DEF HostInv

\* A failure is counted as one of its kind, and the bound is for the sum.
LEMMA HostFails ==
  ASSUME HostInv, NEW k \in Host!FaultKinds, Host!Fail(k)
  PROVE  /\ installFailed' \in [Host!FaultKinds -> 0..InstallMaxFailures]
         /\ installFailed'[k] = installFailed[k] + 1
         /\ \A j \in Host!FaultKinds \ {k} : installFailed'[j] = installFailed[j]
<1>1. installFailed \in [Host!FaultKinds -> 0..InstallMaxFailures] /\ InstallMaxFailures \in Nat
  BY InstallAssumptions DEF HostInv, Host!TypeOK, Host!Assumptions
<1>2. Host!FaultKinds = {"command", "cut", "upload", "removal", "overlap"}
  BY DEF Host!FaultKinds
<1>3. installFailed["command"] + installFailed["cut"] + installFailed["upload"]
         + installFailed["removal"] + installFailed["overlap"] < InstallMaxFailures
  BY DEF Host!Fail, Host!Failures
<1>4. \A j \in Host!FaultKinds : installFailed[j] \in Nat
  BY <1>1
<1>5. installFailed[k] < InstallMaxFailures
  BY <1>1, <1>2, <1>3, <1>4
<1>6. installFailed' = [installFailed EXCEPT ![k] = @ + 1]
  BY DEF Host!Fail
<1>7. installFailed[k] + 1 \in 0..InstallMaxFailures
  BY <1>1, <1>5
<1> QED BY <1>1, <1>6, <1>7

LEMMA HostMoves ==
  ASSUME HostInv, NEW i \in Installations, NEW step \in Host!Working \cup {"ok", "failed"},
         Host!GoTo(i, step)
  PROVE  /\ pc' \in [Installations -> Host!Working \cup {"idle", "ok", "failed"}]
         /\ pc'[i] = step
         /\ \A j \in Installations \ {i} : pc'[j] = pc[j]
BY DEF HostInv, Host!TypeOK, Host!GoTo

LEMMA HostTypes ==
  ASSUME HostInv
  PROVE  /\ pc \in [Installations -> Host!Working \cup {"idle", "ok", "failed"}]
         /\ request \in [Installations -> Requests \cup {Null}]
         /\ failing \in SUBSET Installations /\ archives \in SUBSET Installations
         /\ home \in [Files -> Installations \cup {Null}] /\ last \in Installations \cup {Null}
         /\ running \subseteq [by : Installations, over : SUBSET Files]
         /\ orphans \in SUBSET (Installations \X {"stop", "extract", "start"})
         /\ disturbed \in BOOLEAN
         /\ installFailed \in [Host!FaultKinds -> 0..InstallMaxFailures]
BY DEF HostInv, Host!TypeOK

\* What is asked of an installation that has begun.
LEMMA RequestTypes ==
  ASSUME HostInv, NEW i \in Installations, pc[i] # "idle"
  PROVE  /\ request[i] \in Requests /\ request[i].files \subseteq Files
         /\ request[i].stop \in {"none", "other", "stops"}
         /\ request[i].start \in {"none", "other", "starts"}
BY InstallAssumptions DEF HostInv, Host!Assumptions, Host!Request

LEMMA HostOverlays ==
  ASSUME HostInv, NEW i \in Installations, NEW done
  PROVE  Host!Overlay(i, done) \in [Files -> Installations \cup {Null}]
BY HostTypes DEF Host!Overlay

\* A start command adds at most a process of its installation.
LEMMA HostStarts ==
  ASSUME HostInv, NEW i \in Installations, pc[i] # "idle"
  PROVE  /\ Host!Started(i) \subseteq [by : Installations, over : SUBSET Files]
         /\ \A p \in Host!Started(i) : p \in running \/ p.by = i
<1>1. {f \in request[i].files : home[f] = i} \in SUBSET Files
  BY RequestTypes
<1> QED BY <1>1, HostTypes DEF Host!Started

\* What a step of installation i that leads to the given step leaves in the
\* archives, the orphans and the processes.
LEMMA HostFramed ==
  ASSUME HostInv, NEW i \in Installations, NEW step \in Host!Working \cup {"ok", "failed"},
         Host!GoTo(i, step), pc[i] # "failed" \/ step = "failed",
         step \in {"stop", "upload", "extract"} => pc[i] \in {"idle", "stop", "upload"},
         request' \in [Installations -> Requests \cup {Null}], request'[i] \in Requests,
         \A j \in Installations \ {i} : request'[j] = request[j],
         archives' \subseteq archives \cup {i},
         i \in archives' => step \notin {"stop", "upload"},
         failing' \in SUBSET Installations, home' \in [Files -> Installations \cup {Null}],
         running' \subseteq [by : Installations, over : SUBSET Files],
         \A p \in running' : p \in running \/ (p.by = i /\ step \notin {"stop", "upload", "extract"}),
         orphans' \in SUBSET (Installations \X {"stop", "extract", "start"}),
         \A o \in orphans' : o \in orphans \/ (o[1] = i /\ step = "failed"),
         last' \in Installations \cup {Null}, disturbed' \in BOOLEAN,
         installFailed' \in [Host!FaultKinds -> 0..InstallMaxFailures]
  PROVE  HostInv'
<1>1. /\ pc' \in [Installations -> Host!Working \cup {"idle", "ok", "failed"}]
      /\ pc'[i] = step /\ step # "idle"
      /\ \A j \in Installations \ {i} : pc'[j] = pc[j]
  BY HostMoves DEF Host!Working
<1>2. Host!TypeOK'
  BY <1>1 DEF HostInv, Host!TypeOK
<1>3. IsFiniteSet(archives')
  <2>1. IsFiniteSet(archives \cup {i})
    BY FS_AddElement DEF HostInv
  <2> QED BY <2>1, FS_Subset
<1>4. ASSUME NEW j \in archives' PROVE pc'[j] \notin {"idle", "stop", "upload"}
  <2>1. j \in Installations
    BY <1>2 DEF Host!TypeOK
  <2>2. CASE j = i
    BY <1>1, <2>2
  <2>3. CASE j # i
    BY <1>1, <2>1, <2>3 DEF HostInv
  <2> QED BY <2>2, <2>3
<1>5. ASSUME NEW o \in orphans' PROVE pc'[o[1]] = "failed"
  <2>1. o[1] \in Installations
    BY <1>5
  <2>2. CASE o[1] = i /\ step = "failed"
    BY <1>1, <2>2
  <2>3. CASE o \in orphans
    <3>1. pc[o[1]] = "failed"
      BY <2>3 DEF HostInv
    <3> QED BY <1>1, <2>1, <3>1
  <2> QED BY <2>2, <2>3
<1>6. ASSUME NEW j \in Installations PROVE pc'[j] = "idle" \/ request'[j] \in Requests
  <2>1. CASE j = i
    BY <2>1
  <2>2. CASE j # i
    BY <1>1, <2>2 DEF HostInv
  <2> QED BY <2>1, <2>2
<1>7. ASSUME NEW p \in running' PROVE pc'[p.by] \notin {"idle", "stop", "upload", "extract"}
  <2>1. p.by \in Installations
    BY <1>7
  <2>2. p \in running => pc[p.by] \notin {"idle", "stop", "upload", "extract"}
    BY DEF HostInv
  <2>3. CASE p.by = i
    BY <1>1, <2>2, <2>3
  <2>4. CASE p.by # i
    BY <1>1, <2>1, <2>2, <2>4
  <2> QED BY <2>3, <2>4
<1> QED BY <1>2, <1>3, <1>4, <1>5, <1>6, <1>7 DEF HostInv

LEMMA HostKeepsTypes ==
  ASSUME HostInv, [Host!Next]_(Host!vars)
  PROVE  HostInv'
<1> USE HostTypes DEF Host!FaultKinds
<1>1. ASSUME NEW i \in Installations, NEW r \in Requests, Host!Connect(i, r) PROVE HostInv'
  <2>1. installFailed' \in [Host!FaultKinds -> 0..InstallMaxFailures]
    BY <1>1, HostFails DEF Host!Connect
  <2>2. i \notin archives /\ pc[i] = "idle"
    BY <1>1 DEF Host!Connect, HostInv
  <2>3. PICK step \in {"stop", "upload"} : Host!GoTo(i, step)
    BY <1>1 DEF Host!Connect
  <2>4. /\ request' \in [Installations -> Requests \cup {Null}] /\ request'[i] \in Requests
        /\ \A j \in Installations \ {i} : request'[j] = request[j]
        /\ disturbed' \in BOOLEAN /\ last' = i
        /\ UNCHANGED <<failing, home, running, archives, orphans>>
    BY <1>1 DEF Host!Connect
  <2> QED BY <2>1, <2>2, <2>3, <2>4, HostFramed DEF Host!Working
<1>2. ASSUME NEW i \in Installations, Host!Stop(i) PROVE HostInv'
  <2>1. installFailed' \in [Host!FaultKinds -> 0..InstallMaxFailures]
    BY <1>2, HostFails DEF Host!Stop
  <2>2. i \notin archives /\ running' \subseteq running /\ pc[i] = "stop"
    BY <1>2 DEF Host!Stop, Host!Stopped, HostInv
  <2>3. PICK step \in {"upload", "failed"} : Host!GoTo(i, step)
    BY <1>2 DEF Host!Stop
  <2>4. request[i] \in Requests /\ UNCHANGED <<request, failing, home, archives, orphans, last, disturbed>>
    BY <1>2, <2>2, RequestTypes DEF Host!Stop
  <2> QED BY <2>1, <2>2, <2>3, <2>4, HostFramed DEF Host!Working
<1>3. ASSUME NEW i \in Installations, Host!Upload(i) PROVE HostInv'
  <2>1. installFailed' \in [Host!FaultKinds -> 0..InstallMaxFailures]
    BY <1>3, HostFails DEF Host!Upload
  <2>2. archives' \subseteq archives \cup {i} /\ pc[i] = "upload"
    BY <1>3 DEF Host!Upload
  <2>3. PICK step \in {"extract", "failed"} : Host!GoTo(i, step)
    BY <1>3 DEF Host!Upload
  <2>4. request[i] \in Requests /\ UNCHANGED <<request, failing, home, running, orphans, last, disturbed>>
    BY <1>3, <2>2, RequestTypes DEF Host!Upload
  <2>5. \A p \in running : p.by # i
    BY <2>2 DEF HostInv
  <2> QED BY <2>1, <2>2, <2>3, <2>4, <2>5, HostFramed DEF Host!Working
<1>4. ASSUME NEW i \in Installations, Host!Extract(i) PROVE HostInv'
  <2>1. installFailed' \in [Host!FaultKinds -> 0..InstallMaxFailures]
    BY <1>4, HostFails DEF Host!Extract, Host!Extracted
  <2>2. failing' \subseteq failing \cup {i} /\ pc[i] = "extract"
    BY <1>4 DEF Host!Extract, Host!Extracted
  <2>3. PICK step \in {"start", "remove"} : Host!GoTo(i, step)
    BY <1>4 DEF Host!Extract, Host!Extracted
  <2>4. request[i] \in Requests /\ UNCHANGED <<request, running, archives, orphans, last, disturbed>>
    BY <1>4, <2>2, RequestTypes DEF Host!Extract
  <2>5. home' \in [Files -> Installations \cup {Null}]
    BY <1>4, HostOverlays DEF Host!Extract, Host!Extracted
  <2> QED BY <2>1, <2>2, <2>3, <2>4, <2>5, HostFramed DEF Host!Working
<1>5. ASSUME NEW i \in Installations, Host!Start(i) PROVE HostInv'
  <2>1. installFailed' \in [Host!FaultKinds -> 0..InstallMaxFailures]
    BY <1>5, HostFails DEF Host!Start
  <2>2. failing' \subseteq failing \cup {i} /\ pc[i] = "start"
    BY <1>5 DEF Host!Start
  <2>3. /\ request[i] \in Requests
        /\ UNCHANGED <<request, home, archives, orphans, last, disturbed>>
        /\ running' \in {running, Host!Started(i)}
    BY <1>5, <2>2, RequestTypes DEF Host!Start
  <2>4. /\ running' \subseteq [by : Installations, over : SUBSET Files]
        /\ \A p \in running' : p \in running \/ p.by = i
    BY <2>2, <2>3, HostStarts
  <2>5. CASE Host!GoTo(i, "remove")
    BY <2>1, <2>2, <2>3, <2>4, <2>5, HostFramed DEF Host!Working
  <2>6. CASE UNCHANGED pc
    <3>1. Host!GoTo(i, "start")
      BY <2>2, <2>6 DEF Host!GoTo
    <3> QED BY <2>1, <2>2, <2>3, <2>4, <3>1, HostFramed DEF Host!Working
  <2> QED BY <1>5, <2>5, <2>6 DEF Host!Start
<1>6. ASSUME NEW i \in Installations, Host!Remove(i) PROVE HostInv'
  <2>1. installFailed' \in [Host!FaultKinds -> 0..InstallMaxFailures]
    BY <1>6, HostFails DEF Host!Remove
  <2>2. archives' \subseteq archives /\ pc[i] = "remove"
    BY <1>6 DEF Host!Remove
  <2>3. PICK step \in {"failed", "ok"} : Host!GoTo(i, step)
    BY <1>6 DEF Host!Remove
  <2>4. request[i] \in Requests /\ UNCHANGED <<request, failing, home, running, orphans, last, disturbed>>
    BY <1>6, <2>2, RequestTypes DEF Host!Remove
  <2> QED BY <2>1, <2>2, <2>3, <2>4, HostFramed DEF Host!Working
<1>7. ASSUME NEW i \in Installations, Host!Cut(i) PROVE HostInv'
  <2>1. installFailed' \in [Host!FaultKinds -> 0..InstallMaxFailures]
    BY <1>7, HostFails DEF Host!Cut
  <2>2. archives' \subseteq archives \cup {i} /\ pc[i] \notin {"idle", "failed"}
    BY <1>7 DEF Host!Cut, Host!Working
  <2>3. PICK step \in {"failed", "ok"} :
           Host!GoTo(i, step) /\ (pc[i] # "remove" => step = "failed")
    BY <1>7 DEF Host!Cut
  <2>4. orphans' \in SUBSET (Installations \X {"stop", "extract", "start"})
    BY <1>7 DEF Host!Cut
  <2>5. \A o \in orphans' : o \in orphans \/ (o[1] = i /\ step = "failed")
    BY <1>7, <2>3 DEF Host!Cut
  <2>6. request[i] \in Requests /\ UNCHANGED <<request, failing, home, running, last, disturbed>>
    BY <1>7, <2>2, RequestTypes DEF Host!Cut
  <2> QED BY <2>1, <2>2, <2>3, <2>4, <2>5, <2>6, HostFramed DEF Host!Working
<1>8. ASSUME NEW i \in Installations, NEW s \in {"stop", "extract", "start"}, Host!Straggle(i, s)
      PROVE  HostInv'
  <2>1. installFailed' \in [Host!FaultKinds -> 0..InstallMaxFailures] /\ disturbed' \in BOOLEAN
    BY <1>8, HostFails DEF Host!Straggle
  <2>2. orphans' \subseteq orphans /\ UNCHANGED <<pc, request, failing, archives, last>>
    BY <1>8 DEF Host!Straggle
  <2>3. pc[i] = "failed"
    BY <1>8 DEF Host!Straggle, HostInv
  <2>4. home' \in [Files -> Installations \cup {Null}]
    BY <1>8, HostOverlays DEF Host!Straggle
  <2>5. running' \subseteq running \/ running' = Host!Started(i)
    BY <1>8 DEF Host!Straggle, Host!Stopped
  <2>6. /\ running' \subseteq [by : Installations, over : SUBSET Files]
        /\ \A p \in running' : p \in running \/ p.by = i
    BY <2>3, <2>5, HostStarts
  <2>7. \A p \in running' : pc'[p.by] \notin {"idle", "stop", "upload", "extract"}
    BY <2>2, <2>3, <2>6 DEF HostInv
  <2> QED BY <2>1, <2>2, <2>4, <2>6, <2>7 DEF HostInv, Host!TypeOK
<1>9. CASE UNCHANGED Host!vars
  BY <1>9 DEF Host!vars, HostInv, Host!TypeOK
<1> QED BY <1>1, <1>2, <1>3, <1>4, <1>5, <1>6, <1>7, <1>8, <1>9 DEF Host!Next

-----------------------------------------------------------------------------
(* Install: a success is what runs *)

\* The parts of what a success promises, of installation i.
Placed(i) == \A f \in request[i].files : home[f] = i

OverItsFiles(i) == \A p \in running : p.by = i => p.over = request[i].files

OthersGone(i) == request[i].stop = "stops" => \A p \in running : p.by = i

Runs(i) == request[i].start = "starts" => \E p \in running : p.by = i

\* While the one that began last is alone at the host, it has got as far as its
\* step says.
SuccessInv ==
    ~disturbed =>
       /\ Host!AtWork \subseteq {last}
       /\ last # Null =>
             /\ pc[last] \in {"upload", "extract", "start"} => OthersGone(last)
             /\ pc[last] = "start" => Placed(last) /\ OverItsFiles(last)
             /\ pc[last] = "ok" \/ (pc[last] = "remove" /\ last \notin failing) =>
                   Placed(last) /\ OverItsFiles(last) /\ OthersGone(last) /\ Runs(last)

\* A step of the one installation at work keeps the invariant if it leaves the
\* host as its next step wants it.
LEMMA SuccessFramed ==
  ASSUME HostInv, SuccessInv, NEW i \in Installations, pc[i] \in Host!Working,
         ~disturbed, UNCHANGED last,
         NEW step \in Host!Working \cup {"ok", "failed"}, Host!GoTo(i, step),
         i = last => /\ step \in {"upload", "extract", "start"} => OthersGone(i)'
                     /\ step = "start" => Placed(i)' /\ OverItsFiles(i)'
                     /\ step = "ok" \/ (step = "remove" /\ i \notin failing') =>
                           Placed(i)' /\ OverItsFiles(i)' /\ OthersGone(i)' /\ Runs(i)'
  PROVE  SuccessInv'
<1>1. i = last
  BY DEF SuccessInv, Host!AtWork
<1>2. /\ pc'[i] = step
      /\ \A j \in Installations \ {i} : pc'[j] = pc[j]
  BY HostMoves
<1>3. Host!AtWork' \subseteq {last'}
  BY <1>1, <1>2 DEF SuccessInv, Host!AtWork
<1>4. i = last' /\ last' = last
  BY <1>1
<1> QED BY <1>1, <1>2, <1>3, <1>4
        DEF SuccessInv, Placed, OverItsFiles, OthersGone, Runs

\* What the invariant says of the installation that takes a step.
LEMMA AtTheHost ==
  ASSUME HostInv, SuccessInv, ~disturbed, NEW i \in Installations, pc[i] \in Host!Working
  PROVE  /\ i = last
         /\ pc[i] \in {"upload", "extract", "start"} => OthersGone(i)
         /\ pc[i] = "start" => Placed(i) /\ OverItsFiles(i)
         /\ pc[i] = "remove" /\ i \notin failing =>
               Placed(i) /\ OverItsFiles(i) /\ OthersGone(i) /\ Runs(i)
<1>1. i = last /\ last # Null
  BY InstallAssumptions DEF SuccessInv, Host!AtWork, Host!Assumptions
<1> QED BY <1>1 DEF SuccessInv

\* What is untouched stays so.
LEMMA HostStays ==
  ASSUME NEW i, UNCHANGED <<request, home, running>>
  PROVE  /\ Placed(i)' = Placed(i) /\ OverItsFiles(i)' = OverItsFiles(i)
         /\ OthersGone(i)' = OthersGone(i) /\ Runs(i)' = Runs(i)
BY DEF Placed, OverItsFiles, OthersGone, Runs

\* Over files that are in place, the start command starts the release.
LEMMA StartsOverItsFiles ==
  ASSUME HostInv, NEW i \in Installations, pc[i] # "idle", Placed(i), OverItsFiles(i), OthersGone(i),
         UNCHANGED <<request, home>>, running' = Host!Started(i)
  PROVE  Placed(i)' /\ OverItsFiles(i)' /\ OthersGone(i)' /\ Runs(i)'
<1>1. {f \in request[i].files : home[f] = i} = request[i].files
  BY DEF Placed
<1>2. CASE request[i].start = "starts" /\ \A p \in running : p.by # i
  <2> DEFINE mine == [by |-> i, over |-> request[i].files]
  <2>1. running' = running \cup {mine}
    BY <1>1, <1>2 DEF Host!Started
  <2>2. mine.by = i /\ mine.over = request[i].files
    OBVIOUS
  <2> HIDE DEF mine
  <2>3. Placed(i)' /\ Runs(i)'
    BY <2>1, <2>2 DEF Placed, Runs
  <2>4. OverItsFiles(i)' /\ OthersGone(i)'
    BY <2>1, <2>2 DEF OverItsFiles, OthersGone
  <2> QED BY <2>3, <2>4
<1>3. CASE ~(request[i].start = "starts" /\ \A p \in running : p.by # i)
  <2>1. running' = running
    BY <1>3 DEF Host!Started
  <2> QED BY <1>3, <2>1 DEF Placed, OverItsFiles, OthersGone, Runs
<1> QED BY <1>2, <1>3

LEMMA SuccessStep ==
  ASSUME HostInv, SuccessInv, [Host!Next]_(Host!vars)
  PROVE  SuccessInv'
<1> SUFFICES ASSUME ~disturbed'
             PROVE  SuccessInv'
  BY DEF SuccessInv
<1>1. ASSUME NEW i \in Installations, NEW r \in Requests, Host!Connect(i, r) PROVE SuccessInv'
  <2>1. Host!AtWork = {} /\ last' = i /\ UNCHANGED running
    BY <1>1 DEF Host!Connect
  <2>2. /\ pc'[i] \in {"stop", "upload"} /\ (pc'[i] = "upload" => r.stop = "none")
        /\ \A j \in Installations \ {i} : pc'[j] = pc[j]
    BY <1>1, HostMoves DEF Host!Connect, Host!Working
  <2>3. request'[i] = r
    BY <1>1, HostTypes DEF Host!Connect
  <2>4. pc'[i] = "upload" => OthersGone(i)'
    BY <2>2, <2>3 DEF OthersGone
  <2>5. Host!AtWork' \subseteq {i}
    BY <2>1, <2>2 DEF Host!AtWork
  <2> QED BY <2>1, <2>2, <2>4, <2>5 DEF SuccessInv, OthersGone
<1>2. ASSUME NEW i \in Installations, Host!Stop(i) PROVE SuccessInv'
  <2>1. ~disturbed /\ pc[i] = "stop" /\ UNCHANGED <<request, last>>
    BY <1>2 DEF Host!Stop
  <2>2. \/ running' = Host!Stopped(i) /\ Host!GoTo(i, "upload")
        \/ Host!GoTo(i, "failed")
    BY <1>2 DEF Host!Stop
  <2>3. running' = Host!Stopped(i) => OthersGone(i)'
    BY <2>1 DEF OthersGone, Host!Stopped
  <2> QED BY <2>1, <2>2, <2>3, SuccessFramed DEF Host!Working
<1>3. ASSUME NEW i \in Installations, Host!Upload(i) PROVE SuccessInv'
  <2>1. ~disturbed /\ pc[i] = "upload" /\ UNCHANGED <<request, home, running, last>>
    BY <1>3 DEF Host!Upload
  <2>2. Host!GoTo(i, "extract") \/ Host!GoTo(i, "failed")
    BY <1>3 DEF Host!Upload
  <2>3. OthersGone(i)'
    BY <2>1, AtTheHost, HostStays DEF Host!Working
  <2> QED BY <2>1, <2>2, <2>3, SuccessFramed DEF Host!Working
<1>4. ASSUME NEW i \in Installations, Host!Extract(i) PROVE SuccessInv'
  <2>1. ~disturbed /\ pc[i] = "extract" /\ UNCHANGED <<request, running, last>>
    BY <1>4 DEF Host!Extract
  <2>2. OthersGone(i)
    BY <2>1, AtTheHost DEF Host!Working
  <2>3. /\ \A p \in running : p.by # i
        /\ request[i].files \subseteq Files
    BY <2>1, RequestTypes DEF HostInv
  <2>4. OthersGone(i)' /\ OverItsFiles(i)'
    BY <2>1, <2>2, <2>3 DEF OthersGone, OverItsFiles
  <2>5. CASE Host!Extracted(i)
    <3>1. Placed(i)'
      BY <2>1, <2>3, <2>5 DEF Placed, Host!Extracted, Host!Overlay
    <3>2. CASE request[i].start = "none"
      <4>1. Host!GoTo(i, "remove") /\ Runs(i)'
        BY <2>1, <2>5, <3>2 DEF Host!Extracted, Runs
      <4> QED BY <2>1, <2>4, <3>1, <4>1, SuccessFramed DEF Host!Working
    <3>3. CASE request[i].start # "none"
      <4>1. Host!GoTo(i, "start")
        BY <2>5, <3>3 DEF Host!Extracted
      <4> QED BY <2>1, <2>4, <3>1, <4>1, SuccessFramed DEF Host!Working
    <3> QED BY <3>2, <3>3
  <2>6. CASE i \in failing' /\ Host!GoTo(i, "remove")
    BY <2>1, <2>6, SuccessFramed DEF Host!Working
  <2> QED BY <1>4, <2>5, <2>6 DEF Host!Extract
<1>5. ASSUME NEW i \in Installations, Host!Start(i) PROVE SuccessInv'
  <2>1. ~disturbed /\ pc[i] = "start" /\ UNCHANGED <<request, home, last>>
    BY <1>5 DEF Host!Start
  <2>2. Placed(i) /\ OverItsFiles(i) /\ OthersGone(i)
    BY <2>1, AtTheHost DEF Host!Working
  <2>3. CASE running' = Host!Started(i) /\ (Host!GoTo(i, "remove") \/ UNCHANGED pc)
    <3>1. Placed(i)' /\ OverItsFiles(i)' /\ OthersGone(i)' /\ Runs(i)'
      BY <2>1, <2>2, <2>3, StartsOverItsFiles
    <3>2. UNCHANGED pc => Host!GoTo(i, "start")
      BY <2>1, HostTypes DEF Host!GoTo
    <3> QED BY <2>1, <2>3, <3>1, <3>2, SuccessFramed DEF Host!Working
  <2>4. CASE i \in failing' /\ Host!GoTo(i, "remove")
    BY <2>1, <2>4, SuccessFramed DEF Host!Working
  <2> QED BY <1>5, <2>3, <2>4 DEF Host!Start
<1>6. ASSUME NEW i \in Installations, Host!Remove(i) PROVE SuccessInv'
  <2>1. /\ ~disturbed /\ pc[i] = "remove"
        /\ Host!GoTo(i, IF i \in failing THEN "failed" ELSE "ok")
        /\ UNCHANGED <<request, failing, home, running, last>>
    BY <1>6 DEF Host!Remove
  <2>2. i \notin failing => Placed(i)' /\ OverItsFiles(i)' /\ OthersGone(i)' /\ Runs(i)'
    BY <2>1, AtTheHost, HostStays DEF Host!Working
  <2> QED BY <2>1, <2>2, SuccessFramed DEF Host!Working
<1>7. ASSUME NEW i \in Installations, Host!Cut(i) PROVE SuccessInv'
  <2>1. /\ ~disturbed /\ pc[i] \in Host!Working
        /\ Host!GoTo(i, IF pc[i] = "remove" /\ i \notin failing THEN "ok" ELSE "failed")
        /\ UNCHANGED <<request, failing, home, running, last>>
    BY <1>7 DEF Host!Cut
  <2>2. pc[i] = "remove" /\ i \notin failing =>
           Placed(i)' /\ OverItsFiles(i)' /\ OthersGone(i)' /\ Runs(i)'
    BY <2>1, AtTheHost, HostStays
  <2> QED BY <2>1, <2>2, SuccessFramed DEF Host!Working
<1>8. ASSUME NEW i \in Installations, NEW s \in {"stop", "extract", "start"}, Host!Straggle(i, s)
      PROVE  SuccessInv'
  <2>1. last = i /\ ~disturbed /\ UNCHANGED <<pc, request, failing, last>>
    BY <1>8 DEF Host!Straggle
  <2>2. pc[i] = "failed"
    BY <1>8 DEF Host!Straggle, HostInv
  <2> QED BY <2>1, <2>2 DEF SuccessInv, Host!AtWork
<1>9. CASE UNCHANGED Host!vars
  <2>1. UNCHANGED <<pc, request, failing, home, running, last, disturbed>>
    BY <1>9 DEF Host!vars
  <2> QED BY <2>1, HostStays DEF SuccessInv, Host!AtWork, Placed, OverItsFiles, OthersGone, Runs
<1> QED BY <1>1, <1>2, <1>3, <1>4, <1>5, <1>6, <1>7, <1>8, <1>9 DEF Host!Next

\* When the installation that began last has succeeded, its files are in place,
\* what its start command starts runs over them, and what its stop command stops
\* is gone, unless another was at the host since it began (infra/ssh.go:51-72).
THEOREM SuccessesAreWhatRuns == Host!Spec => []SuccessIsWhatRuns
<1>1. Host!Init => SuccessInv
  BY DEF Host!Init, SuccessInv, Host!AtWork, Host!Working
<1>2. SuccessInv => SuccessIsWhatRuns
  BY DEF SuccessInv, SuccessIsWhatRuns, Host!SuccessIsWhatRuns, Placed, OverItsFiles, OthersGone, Runs
<1> QED BY <1>1, <1>2, HostInit, HostKeepsTypes, SuccessStep, PTL DEF Host!Spec

-----------------------------------------------------------------------------
(* Install: archives that are left *)

Left == archives \ Host!AtWork

\* The module Install counts with the operator every module counts with.
LEMMA HostCounts == ASSUME NEW S PROVE Host!Cardinality(S) = Cardinality(S)
BY DEF Host!Cardinality, Cardinality

LEMMA SetGrows ==
  ASSUME NEW S, IsFiniteSet(S), NEW b, NEW T, T \subseteq S \cup {b}
  PROVE  IsFiniteSet(T) /\ Cardinality(T) <= Cardinality(S) + 1
<1>1. IsFiniteSet(S \cup {b}) /\ Cardinality(S) \in Nat
  BY FS_AddElement, FS_CardinalityType
<1>2. Cardinality(S \cup {b}) \in {Cardinality(S), Cardinality(S) + 1}
  BY FS_AddElement
<1>3. /\ IsFiniteSet(T) /\ Cardinality(T) \in Nat
      /\ Cardinality(T) <= Cardinality(S \cup {b})
  BY <1>1, FS_Subset, FS_CardinalityType
<1> QED BY <1>1, <1>2, <1>3

\* A step leaves at most the archive of its own installation behind.
LEMMA LeftFramed ==
  ASSUME HostInv, LeftArchivesArePaidFor, NEW i \in Installations, NEW n \in {0, 1},
         Left' \subseteq Left \cup {i},
         n = 0 => Left' \subseteq Left,
         installFailed' \in [Host!FaultKinds -> 0..InstallMaxFailures],
         installFailed'["cut"] + installFailed'["upload"] + installFailed'["removal"]
            >= installFailed["cut"] + installFailed["upload"] + installFailed["removal"] + n
  PROVE  LeftArchivesArePaidFor'
<1> USE DEF LeftArchivesArePaidFor, Host!LeftArchivesArePaidFor
<1>1. IsFiniteSet(Left) /\ Cardinality(Left) \in Nat
  BY FS_Subset, FS_CardinalityType DEF HostInv, Left
<1>2. IsFiniteSet(Left') /\ Cardinality(Left') <= Cardinality(Left) + 1
  BY <1>1, SetGrows
<1>3. Cardinality(Left') \in Nat /\ Cardinality(Left') <= Cardinality(Left) + n
  <2>1. Cardinality(Left') \in Nat
    BY <1>2, FS_CardinalityType
  <2>2. CASE n = 0
    BY <1>1, <2>1, <2>2, FS_Subset
  <2>3. CASE n = 1
    BY <1>1, <1>2, <2>1, <2>3
  <2> QED BY <2>1, <2>2, <2>3
<1>4. /\ \A k \in {"cut", "upload", "removal"} : installFailed[k] \in Nat
      /\ \A k \in {"cut", "upload", "removal"} : installFailed'[k] \in Nat
  <2>1. InstallMaxFailures \in Nat /\ {"cut", "upload", "removal"} \subseteq Host!FaultKinds
    BY InstallAssumptions DEF Host!FaultKinds, Host!Assumptions
  <2>2. installFailed \in [Host!FaultKinds -> 0..InstallMaxFailures]
    BY HostTypes
  <2>3. installFailed' \in [Host!FaultKinds -> 0..InstallMaxFailures]
    OBVIOUS
  <2>4. 0..InstallMaxFailures \subseteq Nat
    BY <2>1
  <2> HIDE DEF Host!LeftArchivesArePaidFor
  <2> QED BY <2>1, <2>2, <2>3, <2>4
<1>5. Cardinality(Left) <= installFailed["cut"] + installFailed["upload"] + installFailed["removal"]
  BY HostCounts DEF Left
<1>6. Cardinality(Left') <=
         installFailed'["cut"] + installFailed'["upload"] + installFailed'["removal"]
  <2>1. Cardinality(Left) + n <=
           installFailed["cut"] + installFailed["upload"] + installFailed["removal"] + n
    BY <1>1, <1>4, <1>5
  <2> QED BY <1>1, <1>3, <1>4, <2>1
<1> QED BY <1>6, HostCounts DEF Left

\* Of the failures, those that may leave an archive are counted.
LEMMA LeftFails ==
  ASSUME HostInv, NEW k \in Host!FaultKinds, UNCHANGED installFailed \/ Host!Fail(k),
         NEW n \in {0, 1}, n = 1 => Host!Fail(k) /\ k \in {"cut", "upload", "removal"}
  PROVE  /\ installFailed' \in [Host!FaultKinds -> 0..InstallMaxFailures]
         /\ installFailed'["cut"] + installFailed'["upload"] + installFailed'["removal"]
               >= installFailed["cut"] + installFailed["upload"] + installFailed["removal"] + n
<1>1. installFailed' \in [Host!FaultKinds -> 0..InstallMaxFailures]
  BY HostFails, HostTypes
<1>2. /\ \A j \in {"cut", "upload", "removal"} : installFailed[j] \in Nat
      /\ \A j \in {"cut", "upload", "removal"} : installFailed'[j] \in Nat
  BY <1>1, HostTypes, InstallAssumptions DEF Host!FaultKinds, Host!Assumptions
<1>3. CASE UNCHANGED installFailed
  <2>1. n = 0
    BY <1>1, <1>2, <1>3, HostFails, HostTypes DEF Host!FaultKinds
  <2> QED BY <1>1, <1>2, <1>3, <2>1
<1>4. CASE Host!Fail(k)
  <2>1. /\ installFailed'[k] = installFailed[k] + 1
        /\ \A j \in Host!FaultKinds \ {k} : installFailed'[j] = installFailed[j]
    BY <1>4, HostFails
  <2>2. CASE k = "cut"
    BY <1>1, <1>2, <2>1, <2>2 DEF Host!FaultKinds
  <2>3. CASE k = "upload"
    BY <1>1, <1>2, <2>1, <2>3 DEF Host!FaultKinds
  <2>4. CASE k = "removal"
    BY <1>1, <1>2, <2>1, <2>4 DEF Host!FaultKinds
  <2>5. CASE k \notin {"cut", "upload", "removal"}
    BY <1>1, <1>2, <2>1, <2>5 DEF Host!FaultKinds
  <2> QED BY <2>2, <2>3, <2>4, <2>5
<1> QED BY <1>3, <1>4

\* What a step of one installation does to the archives that are left.
LEMMA LeftMoves ==
  ASSUME HostInv, NEW i \in Installations, NEW step \in Host!Working \cup {"ok", "failed"},
         Host!GoTo(i, step), archives' \subseteq archives \cup {i}
  PROVE  /\ Left' \subseteq Left \cup {i}
         /\ step \in Host!Working => Left' \subseteq Left
         /\ i \notin archives' => Left' \subseteq Left
<1>1. /\ pc'[i] = step
      /\ \A j \in Installations \ {i} : pc'[j] = pc[j]
  BY HostMoves
<1>2. archives \subseteq Installations
  BY HostTypes
<1>3. \A j \in Left' : j \in Installations /\ (j # i => j \in Left)
  BY <1>1, <1>2 DEF Left, Host!AtWork
<1>4. step \in Host!Working => i \notin Left'
  BY <1>1 DEF Left, Host!AtWork
<1>5. i \notin archives' => i \notin Left'
  BY DEF Left
<1> QED BY <1>3, <1>4, <1>5

LEMMA LeftStep ==
  ASSUME HostInv, LeftArchivesArePaidFor, [Host!Next]_(Host!vars)
  PROVE  LeftArchivesArePaidFor'
<1> USE DEF Host!FaultKinds
<1>1. ASSUME NEW i \in Installations, NEW r \in Requests, Host!Connect(i, r)
      PROVE  LeftArchivesArePaidFor'
  <2>1. \E step \in {"stop", "upload"} : Host!GoTo(i, step)
    BY <1>1 DEF Host!Connect
  <2>2. Left' \subseteq Left
    BY <1>1, <2>1, LeftMoves DEF Host!Connect, Host!Working
  <2> QED BY <1>1, <2>2, LeftFails, LeftFramed DEF Host!Connect
<1>2. ASSUME NEW i \in Installations, Host!Stop(i) PROVE LeftArchivesArePaidFor'
  <2>1. i \notin archives /\ UNCHANGED archives
    BY <1>2 DEF HostInv, Host!Stop
  <2>2. \E step \in {"upload", "failed"} : Host!GoTo(i, step)
    BY <1>2 DEF Host!Stop
  <2>3. Left' \subseteq Left
    BY <2>1, <2>2, LeftMoves DEF Host!Working
  <2> QED BY <1>2, <2>3, LeftFails, LeftFramed DEF Host!Stop
<1>3. ASSUME NEW i \in Installations, Host!Upload(i) PROVE LeftArchivesArePaidFor'
  <2>1. CASE UNCHANGED installFailed /\ Host!GoTo(i, "extract")
    <3>1. Left' \subseteq Left
      BY <1>3, <2>1, LeftMoves DEF Host!Upload, Host!Working
    <3> QED BY <2>1, <3>1, LeftFails, LeftFramed
  <2>2. CASE Host!Fail("upload") /\ Host!GoTo(i, "failed")
    <3>1. Left' \subseteq Left \cup {i}
      BY <1>3, <2>2, LeftMoves DEF Host!Upload, Host!Working
    <3> QED BY <2>2, <3>1, LeftFails, LeftFramed
  <2> QED BY <1>3, <2>1, <2>2 DEF Host!Upload
<1>4. ASSUME NEW i \in Installations, Host!Extract(i) PROVE LeftArchivesArePaidFor'
  <2>1. \E step \in {"start", "remove"} : Host!GoTo(i, step)
    BY <1>4 DEF Host!Extract, Host!Extracted
  <2>2. Left' \subseteq Left
    BY <1>4, <2>1, LeftMoves DEF Host!Extract, Host!Working
  <2>3. UNCHANGED installFailed \/ Host!Fail("command")
    BY <1>4 DEF Host!Extract, Host!Extracted
  <2> QED BY <2>2, <2>3, LeftFails, LeftFramed
<1>5. ASSUME NEW i \in Installations, Host!Start(i) PROVE LeftArchivesArePaidFor'
  <2>1. UNCHANGED archives /\ (UNCHANGED installFailed \/ Host!Fail("command"))
    BY <1>5 DEF Host!Start
  <2>2. CASE Host!GoTo(i, "remove")
    <3>1. Left' \subseteq Left
      BY <2>1, <2>2, LeftMoves DEF Host!Working
    <3> QED BY <2>1, <3>1, LeftFails, LeftFramed
  <2>3. CASE UNCHANGED pc
    <3>1. Left' = Left
      BY <2>1, <2>3 DEF Left, Host!AtWork
    <3> QED BY <2>1, <3>1, LeftFails, LeftFramed
  <2> QED BY <1>5, <2>2, <2>3 DEF Host!Start
<1>6. ASSUME NEW i \in Installations, Host!Remove(i) PROVE LeftArchivesArePaidFor'
  <2>1. \E step \in {"failed", "ok"} : Host!GoTo(i, step)
    BY <1>6 DEF Host!Remove
  <2>2. CASE UNCHANGED installFailed /\ archives' = archives \ {i}
    <3>1. Left' \subseteq Left
      BY <2>1, <2>2, LeftMoves
    <3> QED BY <2>2, <3>1, LeftFails, LeftFramed
  <2>3. CASE Host!Fail("removal") /\ UNCHANGED archives
    <3>1. Left' \subseteq Left \cup {i}
      BY <2>1, <2>3, LeftMoves
    <3> QED BY <2>3, <3>1, LeftFails, LeftFramed
  <2> QED BY <1>6, <2>2, <2>3 DEF Host!Remove
<1>7. ASSUME NEW i \in Installations, Host!Cut(i) PROVE LeftArchivesArePaidFor'
  <2>1. \E step \in {"failed", "ok"} : Host!GoTo(i, step)
    BY <1>7 DEF Host!Cut
  <2>2. archives' \subseteq archives \cup {i}
    BY <1>7 DEF Host!Cut
  <2>3. Left' \subseteq Left \cup {i}
    BY <2>1, <2>2, LeftMoves
  <2> QED BY <1>7, <2>3, LeftFails, LeftFramed DEF Host!Cut
<1>8. ASSUME NEW i \in Installations, NEW s \in {"stop", "extract", "start"}, Host!Straggle(i, s)
      PROVE  LeftArchivesArePaidFor'
  <2>1. Left' = Left
    BY <1>8 DEF Host!Straggle, Left, Host!AtWork
  <2> QED BY <1>8, <2>1, LeftFails, LeftFramed DEF Host!Straggle
<1>9. CASE UNCHANGED Host!vars
  BY <1>9 DEF Host!vars, LeftArchivesArePaidFor, Host!LeftArchivesArePaidFor, Host!AtWork
<1> QED BY <1>1, <1>2, <1>3, <1>4, <1>5, <1>6, <1>7, <1>8, <1>9 DEF Host!Next

\* An archive that is left in /tmp was cut off or its upload or removal failed:
\* a command of the payload that fails does not leave one (infra/ssh.go:57-66).
THEOREM LeftArchivesAreAccounted == Host!Spec => []LeftArchivesArePaidFor
<1>1. Host!Init => LeftArchivesArePaidFor
  <2> SUFFICES ASSUME Host!Init PROVE LeftArchivesArePaidFor
    OBVIOUS
  <2>1. archives \ Host!AtWork = {} /\ \A k \in Host!FaultKinds : installFailed[k] = 0
    BY DEF Host!Init, Host!AtWork, Host!FaultKinds
  <2> QED BY <2>1, FS_EmptySet, HostCounts
          DEF LeftArchivesArePaidFor, Host!LeftArchivesArePaidFor, Host!FaultKinds
<1> QED BY <1>1, HostInit, HostKeepsTypes, LeftStep, PTL DEF Host!Spec

-----------------------------------------------------------------------------
(* Payload: archives *)

Copied(a, config) == [i \in DOMAIN a.entries |-> Uploads!Injected(a.entries[i], config)]

LEMMA InjectedKeepsNames ==
  ASSUME NEW e \in Uploads!Entry, NEW config
  PROVE  /\ Uploads!Injected(e, config) \in Uploads!Entry
         /\ Uploads!Injected(e, config).name = e.name
         /\ e.name = config => /\ Uploads!Injected(e, config).url = Uploads!Replaced(e.url)
                               /\ Uploads!Injected(e, config).auth = Uploads!Replaced(e.auth)
<1>1. Uploads!Replaced(e.url) \in Uploads!Mark /\ Uploads!Replaced(e.auth) \in Uploads!Mark
  BY DEF Uploads!Replaced, Uploads!Entry, Uploads!Mark
<1>2. CASE e.name = config
  <2>1. Uploads!Injected(e, config) =
           [e EXCEPT !.url = Uploads!Replaced(e.url), !.auth = Uploads!Replaced(e.auth)]
    BY <1>2 DEF Uploads!Injected
  <2> QED BY <1>1, <2>1 DEF Uploads!Entry
<1>3. CASE e.name # config
  BY <1>3 DEF Uploads!Injected
<1> QED BY <1>2, <1>3

LEMMA CopiedIsSeq ==
  ASSUME NEW a \in Uploads!Archive, NEW config
  PROVE  /\ Copied(a, config) \in Seq(Uploads!Entry)
         /\ DOMAIN Copied(a, config) = DOMAIN a.entries
         /\ \A i \in DOMAIN a.entries :
               /\ a.entries[i] \in Uploads!Entry
               /\ Copied(a, config)[i] = Uploads!Injected(a.entries[i], config)
<1>1. a.entries \in Seq(Uploads!Entry)
  BY DEF Uploads!Archive
<1>2. /\ DOMAIN a.entries = 1..Len(a.entries) /\ Len(a.entries) \in Nat
      /\ \A i \in DOMAIN a.entries : a.entries[i] \in Uploads!Entry
  BY <1>1
<1>3. Copied(a, config) \in [1..Len(a.entries) -> Uploads!Entry]
  BY <1>2, InjectedKeepsNames DEF Copied
<1> QED BY <1>2, <1>3, SeqDef DEF Copied

\* The bundle of an archive that can be read: its entries with their markers
\* replaced, and perhaps the key behind them.
LEMMA BundleOf ==
  ASSUME NEW a \in Uploads!Archive, Uploads!Readable(a), NEW config, NEW keyed \in BOOLEAN
  PROVE  /\ Uploads!Inject(a, config, keyed) \in Seq(Uploads!Entry)
         /\ Uploads!Inject(a, config, keyed) # Broken
         /\ DOMAIN a.entries \subseteq DOMAIN Uploads!Inject(a, config, keyed)
         /\ \A i \in DOMAIN a.entries :
               Uploads!Inject(a, config, keyed)[i] = Uploads!Injected(a.entries[i], config)
         /\ \A i \in DOMAIN Uploads!Inject(a, config, keyed) \ DOMAIN a.entries :
               /\ Uploads!Inject(a, config, keyed)[i] = Uploads!KeyEntry
               /\ \A j \in DOMAIN a.entries : j < i
<1> DEFINE copied == Copied(a, config)
<1>1. Broken \notin Uploads!Archive \cup Seq(Uploads!Entry) /\ KeyName \in Names
  BY PayloadAssumptions DEF Uploads!Assumptions
<1>2. Uploads!Inject(a, config, keyed) =
         IF keyed THEN Append(copied, Uploads!KeyEntry) ELSE copied
  BY <1>1 DEF Uploads!Inject, Copied
<1>3. Uploads!KeyEntry \in Uploads!Entry
  BY <1>1 DEF Uploads!KeyEntry, Uploads!Entry, Uploads!Mark
<1>4. copied \in Seq(Uploads!Entry) /\ DOMAIN copied = DOMAIN a.entries
      /\ DOMAIN copied = 1..Len(copied) /\ Len(copied) \in Nat
      /\ \A i \in DOMAIN a.entries : copied[i] = Uploads!Injected(a.entries[i], config)
  BY CopiedIsSeq
<1> HIDE DEF copied
<1>5. CASE keyed
  <2>1. /\ Append(copied, Uploads!KeyEntry) \in Seq(Uploads!Entry)
        /\ Len(Append(copied, Uploads!KeyEntry)) = Len(copied) + 1
        /\ \A i \in 1..Len(copied) : Append(copied, Uploads!KeyEntry)[i] = copied[i]
        /\ Append(copied, Uploads!KeyEntry)[Len(copied) + 1] = Uploads!KeyEntry
    BY <1>3, <1>4, AppendProperties
  <2>2. DOMAIN Append(copied, Uploads!KeyEntry) = 1..(Len(copied) + 1)
    BY <2>1
  <2> HIDE DEF Uploads!Inject
  <2> QED BY <1>1, <1>2, <1>4, <1>5, <2>1, <2>2
<1>6. CASE ~keyed
  BY <1>1, <1>2, <1>4, <1>6
<1> QED BY <1>5, <1>6

\* What a bundle promises of the config: its last entry of the name is in order,
\* or is not the one that was looked at.
Ready(bundle, config) ==
    /\ Uploads!Configured(bundle, config) \/ Uploads!Shadowed(bundle, config)
    /\ ~Uploads!Unfilled(bundle, config)

\* What the service accepts, the deployment makes a configured bundle of.
LEMMA AcceptedIsConfigured ==
  ASSUME NEW a \in Uploads!Archive, NEW config, Uploads!Accepted(a, config), Uploads!Readable(a),
         NEW keyed \in BOOLEAN
  PROVE  Ready(Uploads!Inject(a, config, keyed), config)
<1> DEFINE bundle == Uploads!Inject(a, config, keyed)
<1>1. PICK i \in DOMAIN a.entries :
         /\ a.entries[i].name = config
         /\ \A j \in DOMAIN a.entries : j < i => a.entries[j].name # config
         /\ a.entries[i].url = "marker" /\ a.entries[i].auth = "marker"
  BY DEF Uploads!Accepted
<1>2. /\ DOMAIN a.entries \subseteq DOMAIN bundle
      /\ \A j \in DOMAIN a.entries : bundle[j] = Uploads!Injected(a.entries[j], config)
      /\ \A j \in DOMAIN bundle \ DOMAIN a.entries :
            bundle[j] = Uploads!KeyEntry /\ \A k \in DOMAIN a.entries : k < j
      /\ bundle \in Seq(Uploads!Entry)
  BY BundleOf
<1>3. \A j \in DOMAIN a.entries : a.entries[j] \in Uploads!Entry
  BY CopiedIsSeq
<1> HIDE DEF bundle
<1>4. DOMAIN bundle \subseteq Int
  BY <1>2
<1>5. bundle[i].name = config /\ bundle[i].url = "value" /\ bundle[i].auth = "value"
  BY <1>1, <1>2, <1>3, InjectedKeepsNames DEF Uploads!Replaced
<1>6. ASSUME NEW j \in DOMAIN bundle, j # i, bundle[j].name = config
      PROVE  Uploads!Shadowed(bundle, config)
  <2>1. i \in DOMAIN bundle /\ i \in Int /\ j \in Int
    BY <1>2, <1>4
  <2>2. CASE i < j
    BY <1>5, <1>6, <2>1, <2>2 DEF Uploads!Shadowed
  <2>3. CASE j < i
    BY <1>5, <1>6, <2>1, <2>3 DEF Uploads!Shadowed
  <2> QED BY <1>6, <2>1, <2>2, <2>3
<1>7. ASSUME NEW j \in DOMAIN bundle, bundle[j].name = config
      PROVE  bundle[j].url # "marker" /\ bundle[j].auth # "marker"
  <2>1. CASE j \in DOMAIN a.entries
    <3>1. a.entries[j].name = config
      BY <1>2, <1>3, <1>7, <2>1, InjectedKeepsNames
    <3> QED BY <1>2, <1>3, <2>1, <3>1, InjectedKeepsNames DEF Uploads!Replaced
  <2>2. CASE j \notin DOMAIN a.entries
    BY <1>2, <2>2 DEF Uploads!KeyEntry
  <2> QED BY <2>1, <2>2
<1>8. i \in DOMAIN bundle
  BY <1>2
<1>9. ~Uploads!Unfilled(bundle, config)
  BY <1>7 DEF Uploads!Unfilled
<1>10. Uploads!Configured(bundle, config) \/ Uploads!Shadowed(bundle, config)
  BY <1>4, <1>5, <1>6, <1>8 DEF Uploads!Configured
<1> QED BY <1>9, <1>10 DEF Ready, bundle

-----------------------------------------------------------------------------
(* Payload: what the service keeps, and what a deployment knows *)

Creating == {"upload", "insert", "cleanup"}

\* What a call c knows of its payload, whose row is r and whose object is o.
HandlerKnows(c, r, o, known) ==
    /\ c.payload \in Payloads
    /\ c.pc \in Creating =>
          /\ c.archive \in Uploads!Archive /\ c.config \in Names
          /\ Uploads!Accepted(c.archive, c.config)
          /\ ~known
    /\ c.pc = "upload" => o = Null
    /\ c.pc \in {"upload", "insert"} => r.row = "absent"
    /\ c.pc \in {"insert", "cleanup"} => o = c.archive
    /\ c.pc \in {"write", "delete"} => r.row # "absent"

\* What the service keeps of payload p: a row nobody edited is the one of its
\* object, and an acknowledged payload has both.
PayloadKept(p, r, o, known, changed) ==
    /\ o # Null => o \in Uploads!Archive
    /\ r.row # "absent" /\ ~changed =>
          /\ r.path = p /\ r.config \in Names
          /\ o # Null => Uploads!Accepted(o, r.config)
    /\ known => r.row # "absent" /\ o # Null
    /\ changed => r.row # "absent"

\* What a deployment knows of the payload it loaded as it was created.
BuilderKnows(c, r, o, known) ==
    c.asCreated =>
       /\ c.payload \in Payloads /\ c.path = c.payload /\ c.config \in Names
       /\ r.row # "absent"
       /\ o # Null => o \in Uploads!Archive /\ Uploads!Accepted(o, c.config)
       /\ c.pc \in {"deliver", "delivered"} => Ready(c.bundle, c.config)
       /\ c.pc = "failed" /\ ~c.spoiled /\ known => o # Null /\ ~Uploads!Readable(o)

UploadsTypes ==
    /\ payload \in [Payloads -> Uploads!PayloadRow]
    /\ object \in [Payloads -> Uploads!Archive \cup {Broken, Null}]
    /\ payloadHandling \in [Handlers -> Uploads!Handling]
    /\ building \in [Builders -> Uploads!Building]
    /\ acked \subseteq Payloads
    /\ edited \subseteq Payloads
    /\ payloadFailed \in [Uploads!FaultKinds -> Nat]

MyPayload(h) == payloadHandling[h].payload

UploadsInv ==
    /\ UploadsTypes
    /\ \A h \in Handlers : payloadHandling[h].pc = "idle" => payloadHandling[h] = Uploads!Idle
    /\ \A h \in Handlers : payloadHandling[h].pc # "idle" =>
          HandlerKnows(payloadHandling[h], payload[MyPayload(h)], object[MyPayload(h)], MyPayload(h) \in acked)
    /\ \A h, k \in Handlers :
          /\ payloadHandling[h].pc \in Creating /\ payloadHandling[k].pc \in Creating
          /\ MyPayload(h) = MyPayload(k)
          => h = k
    /\ \A p \in Payloads : PayloadKept(p, payload[p], object[p], p \in acked, p \in edited)
    /\ \A b \in Builders : building[b].pc # "idle" =>
          BuilderKnows(building[b], payload[building[b].payload], object[building[b].payload],
                       building[b].payload \in acked)

LEMMA UploadsInit == Uploads!Init => UploadsInv
<1> SUFFICES ASSUME Uploads!Init PROVE UploadsInv
  OBVIOUS
<1>1. /\ Uploads!NoPayload \in Uploads!PayloadRow /\ Uploads!NoPayload.row = "absent"
      /\ Uploads!Idle \in Uploads!Handling /\ Uploads!Idle.pc = "idle"
      /\ Uploads!NotBuilding \in Uploads!Building /\ Uploads!NotBuilding.pc = "idle"
  BY DEF Uploads!NoPayload, Uploads!PayloadRow, Uploads!Idle, Uploads!Handling,
         Uploads!NotBuilding, Uploads!Building
<1>2. /\ \A p \in Payloads : payload[p] = Uploads!NoPayload /\ object[p] = Null
      /\ \A h \in Handlers : payloadHandling[h] = Uploads!Idle
      /\ \A b \in Builders : building[b] = Uploads!NotBuilding
      /\ acked = {} /\ edited = {}
  BY DEF Uploads!Init
<1>3. UploadsTypes
  BY <1>1 DEF Uploads!Init, UploadsTypes
<1>4. \A p \in Payloads : PayloadKept(p, payload[p], object[p], p \in acked, p \in edited)
  BY <1>1, <1>2 DEF PayloadKept
<1> QED BY <1>1, <1>2, <1>3, <1>4 DEF UploadsInv, Creating

LEMMA UploadsFail ==
  ASSUME UploadsTypes, NEW k \in Uploads!FaultKinds, Uploads!Fail(k)
  PROVE  /\ payloadFailed' \in [Uploads!FaultKinds -> Nat]
         /\ payloadFailed'[k] = payloadFailed[k] + 1
         /\ \A j \in Uploads!FaultKinds \ {k} : payloadFailed'[j] = payloadFailed[j]
BY DEF UploadsTypes, Uploads!Fail

\* What the steps of calls do to what is stored: the row and the object of a
\* payload appear in their Create, a row stays for good, and an object that has
\* a row is at most deleted, never one that was acknowledged.
StoredMoves(h) ==
    /\ payload' \in [Payloads -> Uploads!PayloadRow]
    /\ object' \in [Payloads -> Uploads!Archive \cup {Broken, Null}]
    /\ acked' \subseteq Payloads /\ edited' \subseteq Payloads
    /\ \A p \in Payloads \ {MyPayload(h)} :
          /\ payload'[p] = payload[p] /\ object'[p] = object[p]
          /\ p \in acked' <=> p \in acked
          /\ p \in edited' <=> p \in edited
    /\ LET p == MyPayload(h) IN
          /\ payload[p].row # "absent" => payload'[p].row # "absent"
          /\ payload[p].row # "absent" => object'[p] \in {object[p], Null}
          /\ p \in acked => object'[p] = object[p] /\ p \in acked'
          /\ p \in acked' /\ p \notin acked => payload[p].row = "absent"
          /\ payloadHandling[h].pc \in {"write", "delete"} =>
                object'[p] = object[p] /\ (p \in acked' <=> p \in acked)

\* What the others know stays true.
LEMMA OthersKnowPayloads ==
  ASSUME UploadsInv, NEW h \in Handlers, payloadHandling[h].pc # "idle", StoredMoves(h),
         NEW k \in Handlers, k # h, payloadHandling[k].pc # "idle"
  PROVE  HandlerKnows(payloadHandling[k], payload'[MyPayload(k)], object'[MyPayload(k)], MyPayload(k) \in acked')
<1>1. /\ HandlerKnows(payloadHandling[k], payload[MyPayload(k)], object[MyPayload(k)], MyPayload(k) \in acked)
      /\ HandlerKnows(payloadHandling[h], payload[MyPayload(h)], object[MyPayload(h)], MyPayload(h) \in acked)
  BY DEF UploadsInv
<1>2. MyPayload(h) \in Payloads /\ MyPayload(k) \in Payloads
  BY <1>1 DEF HandlerKnows, MyPayload
<1>3. CASE MyPayload(k) # MyPayload(h)
  BY <1>1, <1>2, <1>3 DEF StoredMoves
<1>4. CASE MyPayload(k) = MyPayload(h)
  <2>1. payloadHandling[h].pc \in {"idle", "upload", "insert", "cleanup", "write", "delete"}
        /\ payloadHandling[k].pc \in {"idle", "upload", "insert", "cleanup", "write", "delete"}
    BY DEF UploadsInv, UploadsTypes, Uploads!Handling
  <2>2. ~ (payloadHandling[h].pc \in Creating /\ payloadHandling[k].pc \in Creating)
    BY <1>4 DEF UploadsInv
  <2>3. CASE payloadHandling[k].pc \in {"write", "delete"}
    BY <1>1, <1>4, <2>3 DEF StoredMoves, HandlerKnows, Creating
  <2>4. CASE payloadHandling[k].pc \in Creating
    <3>1. payloadHandling[h].pc \in {"write", "delete"}
      BY <2>1, <2>2, <2>4 DEF Creating
    <3>2. payload[MyPayload(h)].row # "absent"
      BY <1>1, <3>1 DEF HandlerKnows
    <3> QED BY <1>1, <1>4, <2>4, <3>1, <3>2 DEF StoredMoves, HandlerKnows, Creating
  <2> QED BY <2>1, <2>3, <2>4 DEF Creating
<1> QED BY <1>3, <1>4

LEMMA BuildersKnow ==
  ASSUME UploadsInv, NEW h \in Handlers, payloadHandling[h].pc # "idle", StoredMoves(h),
         NEW b \in Builders, building[b].pc # "idle"
  PROVE  BuilderKnows(building[b], payload'[building[b].payload], object'[building[b].payload],
                      building[b].payload \in acked')
<1> SUFFICES ASSUME building[b].asCreated
             PROVE  BuilderKnows(building[b], payload'[building[b].payload],
                                 object'[building[b].payload], building[b].payload \in acked')
  BY DEF BuilderKnows
<1> DEFINE p == building[b].payload
<1>1. BuilderKnows(building[b], payload[p], object[p], p \in acked)
  BY DEF UploadsInv
<1>2. p \in Payloads /\ payload[p].row # "absent"
  BY <1>1 DEF BuilderKnows
<1>3. /\ payload'[p].row # "absent"
      /\ object'[p] \in {object[p], Null}
      /\ p \in acked => object'[p] = object[p]
      /\ p \in acked' => p \in acked
  BY <1>2 DEF StoredMoves
<1> QED BY <1>1, <1>2, <1>3 DEF BuilderKnows

\* A step of one call keeps the invariant if the call and its payload are as
\* they should be after it.
LEMMA UploadsFramed ==
  ASSUME UploadsInv, NEW h \in Handlers, payloadHandling[h].pc # "idle", StoredMoves(h),
         NEW c \in Uploads!Handling, payloadHandling' = [payloadHandling EXCEPT ![h] = c],
         c.pc = "idle" => c = Uploads!Idle,
         c.pc # "idle" =>
            /\ c.payload = MyPayload(h) /\ payloadHandling[h].pc \in Creating
            /\ HandlerKnows(c, payload'[c.payload], object'[c.payload], c.payload \in acked'),
         LET p == MyPayload(h) IN PayloadKept(p, payload'[p], object'[p], p \in acked', p \in edited'),
         UNCHANGED building, payloadFailed' \in [Uploads!FaultKinds -> Nat]
  PROVE  UploadsInv'
<1>1. payloadHandling \in [Handlers -> Uploads!Handling] /\ building \in [Builders -> Uploads!Building]
  BY DEF UploadsInv, UploadsTypes
<1>2. /\ payloadHandling' \in [Handlers -> Uploads!Handling] /\ payloadHandling'[h] = c
      /\ \A k \in Handlers \ {h} : payloadHandling'[k] = payloadHandling[k]
  BY <1>1
<1>3. UploadsTypes'
  BY <1>1, <1>2 DEF UploadsTypes, StoredMoves
<1>4. ASSUME NEW k \in Handlers, payloadHandling'[k].pc = "idle" PROVE payloadHandling'[k] = Uploads!Idle
  BY <1>2, <1>4 DEF UploadsInv
<1>5. ASSUME NEW k \in Handlers, payloadHandling'[k].pc # "idle"
      PROVE  HandlerKnows(payloadHandling'[k], payload'[MyPayload(k)'], object'[MyPayload(k)'],
                          MyPayload(k)' \in acked')
  <2>1. CASE k = h
    BY <1>2, <1>5, <2>1 DEF MyPayload
  <2>2. CASE k # h
    <3>1. payloadHandling'[k] = payloadHandling[k] /\ MyPayload(k)' = MyPayload(k)
      BY <1>2, <2>2 DEF MyPayload
    <3> QED BY <1>5, <2>2, <3>1, OthersKnowPayloads
  <2> QED BY <2>1, <2>2
<1>6. ASSUME NEW j \in Handlers, NEW k \in Handlers,
             payloadHandling'[j].pc \in Creating, payloadHandling'[k].pc \in Creating,
             MyPayload(j)' = MyPayload(k)'
      PROVE  j = k
  <2>1. \A g \in Handlers : payloadHandling'[g].pc \in Creating =>
           payloadHandling[g].pc \in Creating /\ MyPayload(g)' = MyPayload(g)
    BY <1>2 DEF MyPayload, Creating
  <2> QED BY <1>6, <2>1 DEF UploadsInv
<1>7. ASSUME NEW p \in Payloads
      PROVE  PayloadKept(p, payload'[p], object'[p], p \in acked', p \in edited')
  <2>1. CASE p = MyPayload(h)
    BY <2>1
  <2>2. CASE p # MyPayload(h)
    <3>1. PayloadKept(p, payload[p], object[p], p \in acked, p \in edited)
      BY DEF UploadsInv
    <3> QED BY <2>2, <3>1 DEF StoredMoves
  <2> QED BY <2>1, <2>2
<1>8. ASSUME NEW b \in Builders, building'[b].pc # "idle"
      PROVE  BuilderKnows(building'[b], payload'[building'[b].payload], object'[building'[b].payload],
                          building'[b].payload \in acked')
  BY <1>8, BuildersKnow
<1> QED BY <1>3, <1>4, <1>5, <1>6, <1>7, <1>8 DEF UploadsInv

\* A call begins: it draws an id that is nobody's, or finds a row.
LEMMA UploadsBegin ==
  ASSUME UploadsInv, NEW h \in Handlers, payloadHandling[h].pc = "idle",
         NEW c \in Uploads!Handling, payloadHandling' = [payloadHandling EXCEPT ![h] = c],
         c.pc # "idle", HandlerKnows(c, payload[c.payload], object[c.payload], c.payload \in acked),
         c.pc \in Creating => \A k \in Handlers : MyPayload(k) # c.payload,
         UNCHANGED <<payload, object, building, acked, edited, payloadFailed>>
  PROVE  UploadsInv'
<1>1. payloadHandling \in [Handlers -> Uploads!Handling]
  BY DEF UploadsInv, UploadsTypes
<1>2. /\ payloadHandling' \in [Handlers -> Uploads!Handling] /\ payloadHandling'[h] = c
      /\ \A k \in Handlers \ {h} : payloadHandling'[k] = payloadHandling[k]
  BY <1>1
<1>3. UploadsTypes'
  BY <1>2 DEF UploadsInv, UploadsTypes
<1>4. \A k \in Handlers : payloadHandling'[k].pc = "idle" => payloadHandling'[k] = Uploads!Idle
  BY <1>2 DEF UploadsInv
<1>5. ASSUME NEW k \in Handlers, payloadHandling'[k].pc # "idle"
      PROVE  HandlerKnows(payloadHandling'[k], payload[MyPayload(k)'], object[MyPayload(k)'],
                          MyPayload(k)' \in acked)
  <2>1. CASE k = h
    BY <1>2, <2>1 DEF MyPayload
  <2>2. CASE k # h
    <3>1. payloadHandling'[k] = payloadHandling[k] /\ MyPayload(k)' = MyPayload(k)
      BY <1>2, <2>2 DEF MyPayload
    <3> QED BY <1>5, <3>1 DEF UploadsInv
  <2> QED BY <2>1, <2>2
<1>6. ASSUME NEW j \in Handlers, NEW k \in Handlers,
             payloadHandling'[j].pc \in Creating, payloadHandling'[k].pc \in Creating,
             MyPayload(j)' = MyPayload(k)'
      PROVE  j = k
  <2>1. \A g \in Handlers \ {h} : payloadHandling'[g] = payloadHandling[g] /\ MyPayload(g)' = MyPayload(g)
    BY <1>2 DEF MyPayload
  <2>2. MyPayload(h)' = c.payload /\ payloadHandling'[h] = c
    BY <1>2 DEF MyPayload
  <2>3. CASE j = h /\ k # h
    BY <1>6, <2>1, <2>2, <2>3
  <2>4. CASE k = h /\ j # h
    BY <1>6, <2>1, <2>2, <2>4
  <2>5. CASE j # h /\ k # h
    BY <1>6, <2>1, <2>5 DEF UploadsInv
  <2> QED BY <2>3, <2>4, <2>5
<1> QED BY <1>3, <1>4, <1>5, <1>6 DEF UploadsInv

LEMMA IdleIsTyped ==
  /\ Uploads!Idle \in Uploads!Handling
  /\ Uploads!Idle.pc = "idle" /\ Uploads!Idle.payload = Null
BY DEF Uploads!Idle, Uploads!Handling

LEMMA CreatesKeep ==
  ASSUME UploadsInv, NEW h \in Handlers, NEW p \in Payloads, NEW a \in Archives, NEW config \in Names,
         Uploads!CreatePayload(h, p, a, config)
  PROVE  UploadsInv'
<1> DEFINE c == [pc |-> "upload", payload |-> p, archive |-> a, config |-> config]
<1>1. a \in Uploads!Archive /\ Uploads!Accepted(a, config)
  BY PayloadAssumptions DEF Uploads!CreatePayload, Uploads!Accepted, Uploads!Assumptions
<1>2. c \in Uploads!Handling /\ c.pc = "upload" /\ c.payload = p /\ c.archive = a /\ c.config = config
  BY <1>1 DEF Uploads!Handling
<1>3. payloadHandling' = [payloadHandling EXCEPT ![h] = c]
  BY DEF Uploads!CreatePayload
<1> HIDE DEF c
<1>4. payload[p].row = "absent" /\ object[p] = Null /\ \A k \in Handlers : MyPayload(k) # p
  BY DEF Uploads!CreatePayload, Uploads!Fresh, MyPayload
<1>5. p \notin acked
  BY <1>4 DEF UploadsInv, PayloadKept
<1>6. HandlerKnows(c, payload[c.payload], object[c.payload], c.payload \in acked)
  BY <1>1, <1>2, <1>4, <1>5 DEF HandlerKnows, Creating
<1> QED BY <1>2, <1>3, <1>4, <1>6, UploadsBegin DEF Uploads!CreatePayload

LEMMA FindsKeep ==
  ASSUME UploadsInv, NEW h \in Handlers, NEW p \in Payloads, NEW next \in {"write", "delete"},
         Uploads!FindPayload(h, p, next)
  PROVE  UploadsInv'
<1> DEFINE c == [Uploads!Idle EXCEPT !.pc = next, !.payload = p]
<1>1. c \in Uploads!Handling /\ c.pc = next /\ c.payload = p
  BY IdleIsTyped DEF Uploads!Handling
<1>2. payloadHandling' = [payloadHandling EXCEPT ![h] = c]
  BY DEF Uploads!FindPayload
<1> HIDE DEF c
<1>3. payload[p].row # "absent"
  BY DEF Uploads!FindPayload, Uploads!Live
<1>4. HandlerKnows(c, payload[c.payload], object[c.payload], c.payload \in acked)
  BY <1>1, <1>3 DEF HandlerKnows, Creating
<1> QED BY <1>1, <1>2, <1>4, UploadsBegin DEF Uploads!FindPayload, Creating

\* What a call at work knows, and what is kept of its payload.
LEMMA WhatIsKnown ==
  ASSUME UploadsInv, NEW h \in Handlers, payloadHandling[h].pc # "idle"
  PROVE  /\ MyPayload(h) \in Payloads
         /\ HandlerKnows(payloadHandling[h], payload[MyPayload(h)], object[MyPayload(h)], MyPayload(h) \in acked)
         /\ PayloadKept(MyPayload(h), payload[MyPayload(h)], object[MyPayload(h)],
                        MyPayload(h) \in acked, MyPayload(h) \in edited)
         /\ payloadHandling[h] \in Uploads!Handling
         /\ payload[MyPayload(h)] \in Uploads!PayloadRow
<1>1. HandlerKnows(payloadHandling[h], payload[MyPayload(h)], object[MyPayload(h)], MyPayload(h) \in acked)
  BY DEF UploadsInv
<1>2. MyPayload(h) \in Payloads
  BY <1>1 DEF HandlerKnows, MyPayload
<1> QED BY <1>1, <1>2 DEF UploadsInv, UploadsTypes

\* The call ends, with nothing stored but perhaps a change of the object.
LEMMA CallLetsGo ==
  ASSUME UploadsInv, NEW h \in Handlers, payloadHandling[h].pc # "idle",
         payloadHandling' = [payloadHandling EXCEPT ![h] = Uploads!Idle],
         NEW o \in Uploads!Archive \cup {Null},
         \/ UNCHANGED object
         \/ /\ object' = [object EXCEPT ![MyPayload(h)] = o]
            /\ \/ payloadHandling[h].pc = "upload" /\ o = payloadHandling[h].archive
               \/ payloadHandling[h].pc = "cleanup" /\ o = Null,
         UNCHANGED <<payload, building, acked, edited>>,
         payloadFailed' \in [Uploads!FaultKinds -> Nat]
  PROVE  UploadsInv'
<1> DEFINE p == MyPayload(h)
<1>1. /\ p \in Payloads /\ object \in [Payloads -> Uploads!Archive \cup {Broken, Null}]
      /\ HandlerKnows(payloadHandling[h], payload[p], object[p], p \in acked)
      /\ PayloadKept(p, payload[p], object[p], p \in acked, p \in edited)
  BY WhatIsKnown DEF UploadsInv, UploadsTypes
<1> HIDE DEF p
<1>2. /\ object' \in [Payloads -> Uploads!Archive \cup {Broken, Null}]
      /\ \A q \in Payloads \ {p} : object'[q] = object[q]
      /\ object'[p] \in {object[p], o}
      /\ object'[p] # object[p] => payloadHandling[h].pc \in {"upload", "cleanup"}
      /\ object'[p] # object[p] /\ payloadHandling[h].pc = "cleanup" => object'[p] = Null
  BY <1>1 DEF p
<1>3. payloadHandling[h].pc \in {"upload", "cleanup"} => p \notin acked
  BY <1>1 DEF HandlerKnows, Creating
<1>4. payloadHandling[h].pc = "upload" => payload[p].row = "absent"
  BY <1>1 DEF HandlerKnows
<1>5. StoredMoves(h)
  BY <1>1, <1>2, <1>3, <1>4 DEF StoredMoves, UploadsInv, UploadsTypes, p
<1>6. PayloadKept(p, payload'[p], object'[p], p \in acked', p \in edited')
  BY <1>1, <1>2, <1>3, <1>4 DEF PayloadKept
<1> QED BY <1>5, <1>6, IdleIsTyped, UploadsFramed DEF p

\* The call goes on with its payload.
LEMMA CallGoesOn ==
  ASSUME UploadsInv, NEW h \in Handlers, payloadHandling[h].pc # "idle",
         NEW step \in Creating, payloadHandling' = [payloadHandling EXCEPT ![h].pc = step]
  PROVE  \E c \in Uploads!Handling :
            /\ payloadHandling' = [payloadHandling EXCEPT ![h] = c]
            /\ c.pc = step /\ c.payload = MyPayload(h) /\ c.archive = payloadHandling[h].archive
            /\ c.config = payloadHandling[h].config
<1>1. payloadHandling[h] \in Uploads!Handling /\ payloadHandling \in [Handlers -> Uploads!Handling]
  BY DEF UploadsInv, UploadsTypes
<1> DEFINE c == [payloadHandling[h] EXCEPT !.pc = step]
<1>2. c \in Uploads!Handling
  BY <1>1 DEF Uploads!Handling, Creating
<1>3. payloadHandling' = [payloadHandling EXCEPT ![h] = c]
  BY <1>1
<1> WITNESS c \in Uploads!Handling
<1> QED BY <1>1, <1>3 DEF Uploads!Handling, MyPayload

LEMMA UploadsKeep ==
  ASSUME UploadsInv, NEW h \in Handlers, Uploads!UploadPayload(h)
  PROVE  UploadsInv'
<1> DEFINE p == MyPayload(h)
           a == payloadHandling[h].archive
<1>1. payloadHandling[h].pc = "upload" /\ UNCHANGED <<payload, building, acked, edited>>
  BY DEF Uploads!UploadPayload
<1>2. /\ p \in Payloads /\ HandlerKnows(payloadHandling[h], payload[p], object[p], p \in acked)
      /\ PayloadKept(p, payload[p], object[p], p \in acked, p \in edited)
  BY <1>1, WhatIsKnown
<1>3. /\ a \in Uploads!Archive /\ p \notin acked /\ payload[p].row = "absent"
  BY <1>1, <1>2 DEF HandlerKnows, Creating
<1>4. payloadFailed' \in [Uploads!FaultKinds -> Nat]
  BY UploadsFail DEF Uploads!UploadPayload, Uploads!FaultKinds, UploadsInv, UploadsTypes
<1>5. CASE /\ object' = [object EXCEPT ![p] = a]
           /\ payloadHandling' = [payloadHandling EXCEPT ![h].pc = "insert"]
  <2>1. PICK c \in Uploads!Handling :
           /\ payloadHandling' = [payloadHandling EXCEPT ![h] = c]
           /\ c.pc = "insert" /\ c.payload = p /\ c.archive = a /\ c.config = payloadHandling[h].config
    BY <1>1, <1>5, CallGoesOn DEF Creating
  <2>2. /\ object' \in [Payloads -> Uploads!Archive \cup {Broken, Null}]
        /\ object'[p] = a /\ \A q \in Payloads \ {p} : object'[q] = object[q]
    BY <1>2, <1>3, <1>5 DEF UploadsInv, UploadsTypes
  <2> HIDE DEF p, a
  <2>3. StoredMoves(h)
    BY <1>1, <1>3, <2>2 DEF StoredMoves, UploadsInv, UploadsTypes, p
  <2>4. PayloadKept(p, payload'[p], object'[p], p \in acked', p \in edited')
    BY <1>1, <1>2, <1>3, <2>2 DEF PayloadKept
  <2>5. HandlerKnows(c, payload'[c.payload], object'[c.payload], c.payload \in acked')
    BY <1>1, <1>2, <1>3, <2>1, <2>2 DEF HandlerKnows, Creating, a
  <2> QED BY <1>1, <1>4, <2>1, <2>3, <2>4, <2>5, UploadsFramed DEF p, Creating
<1>6. CASE /\ payloadHandling' = [payloadHandling EXCEPT ![h] = Uploads!Idle]
           /\ UNCHANGED object \/ object' = [object EXCEPT ![p] = a]
  BY <1>1, <1>3, <1>4, <1>6, CallLetsGo
<1> QED BY <1>5, <1>6 DEF Uploads!UploadPayload, MyPayload

LEMMA InsertsRowsKeep ==
  ASSUME UploadsInv, NEW h \in Handlers, Uploads!InsertPayload(h)
  PROVE  UploadsInv'
<1> DEFINE p == MyPayload(h)
           r == Uploads!NewRow(h)
<1>1. payloadHandling[h].pc = "insert" /\ UNCHANGED <<object, building, edited>>
  BY DEF Uploads!InsertPayload
<1>2. /\ p \in Payloads /\ HandlerKnows(payloadHandling[h], payload[p], object[p], p \in acked)
      /\ PayloadKept(p, payload[p], object[p], p \in acked, p \in edited)
  BY <1>1, WhatIsKnown
<1>3. /\ payloadHandling[h].archive \in Uploads!Archive /\ payloadHandling[h].config \in Names
      /\ Uploads!Accepted(payloadHandling[h].archive, payloadHandling[h].config)
      /\ p \notin acked /\ payload[p].row = "absent" /\ object[p] = payloadHandling[h].archive
  BY <1>1, <1>2 DEF HandlerKnows, Creating
<1>4. /\ p \notin edited /\ object[p] # Null
  BY <1>2, <1>3, PayloadAssumptions DEF PayloadKept, Uploads!Assumptions
<1>5. payloadFailed' \in [Uploads!FaultKinds -> Nat]
  BY UploadsFail DEF Uploads!InsertPayload, Uploads!FaultKinds, UploadsInv, UploadsTypes
<1>6. /\ r \in Uploads!PayloadRow /\ r.row = "live" /\ r.path = p
      /\ r.config = payloadHandling[h].config
  BY <1>2, <1>3 DEF Uploads!NewRow, Uploads!PayloadRow, Uploads!Paths, MyPayload
<1> HIDE DEF r
<1>7. \/ payload' = [payload EXCEPT ![p] = r] /\ acked' \in {acked, acked \cup {p}}
      \/ UNCHANGED <<payload, acked>>
  BY DEF Uploads!InsertPayload, MyPayload, r
<1>8. /\ payload' \in [Payloads -> Uploads!PayloadRow] /\ acked' \subseteq Payloads
      /\ \A q \in Payloads \ {p} : payload'[q] = payload[q] /\ (q \in acked' <=> q \in acked)
      /\ payload'[p] = r \/ (payload'[p] = payload[p] /\ p \notin acked')
  BY <1>2, <1>3, <1>6, <1>7 DEF UploadsInv, UploadsTypes
<1>9. StoredMoves(h)
  BY <1>1, <1>3, <1>6, <1>8 DEF StoredMoves, UploadsInv, UploadsTypes
<1>10. PayloadKept(p, payload'[p], object'[p], p \in acked', p \in edited')
  BY <1>1, <1>2, <1>3, <1>4, <1>6, <1>8 DEF PayloadKept
<1>11. CASE payloadHandling' = [payloadHandling EXCEPT ![h].pc = "cleanup"] /\ UNCHANGED acked
  <2>1. PICK c \in Uploads!Handling :
           /\ payloadHandling' = [payloadHandling EXCEPT ![h] = c]
           /\ c.pc = "cleanup" /\ c.payload = p /\ c.archive = payloadHandling[h].archive
           /\ c.config = payloadHandling[h].config
    BY <1>1, <1>11, CallGoesOn DEF Creating
  <2>2. HandlerKnows(c, payload'[c.payload], object'[c.payload], c.payload \in acked')
    BY <1>1, <1>2, <1>3, <1>11, <2>1 DEF HandlerKnows, Creating
  <2> HIDE DEF p
  <2> QED BY <1>1, <1>5, <1>9, <1>10, <2>1, <2>2, UploadsFramed DEF Creating, p
<1>12. CASE payloadHandling' = [payloadHandling EXCEPT ![h] = Uploads!Idle]
  BY <1>1, <1>5, <1>9, <1>10, <1>12, IdleIsTyped, UploadsFramed
<1> QED BY <1>11, <1>12 DEF Uploads!InsertPayload

LEMMA CleanUpsKeep ==
  ASSUME UploadsInv, NEW h \in Handlers, Uploads!CleanUp(h)
  PROVE  UploadsInv'
<1>1. /\ payloadHandling[h].pc = "cleanup" /\ UNCHANGED <<payload, building, acked, edited>>
      /\ payloadHandling' = [payloadHandling EXCEPT ![h] = Uploads!Idle]
      /\ UNCHANGED object \/ object' = [object EXCEPT ![MyPayload(h)] = Null]
  BY DEF Uploads!CleanUp, MyPayload
<1>2. payloadFailed' \in [Uploads!FaultKinds -> Nat]
  BY UploadsFail DEF Uploads!CleanUp, Uploads!FaultKinds, UploadsInv, UploadsTypes
<1> QED BY <1>1, <1>2, CallLetsGo

\* A statement of Update or Delete, by id.
LEMMA EditsKeep ==
  ASSUME UploadsInv, NEW h \in Handlers, payloadHandling[h].pc \in {"write", "delete"},
         payloadHandling' = [payloadHandling EXCEPT ![h] = Uploads!Idle],
         NEW r \in Uploads!PayloadRow,
         payload' = [payload EXCEPT ![MyPayload(h)] = r],
         r.row # "absent",
         edited' \in {edited, edited \cup {MyPayload(h)}},
         MyPayload(h) \notin edited' =>
            r.path = payload[MyPayload(h)].path /\ r.config = payload[MyPayload(h)].config,
         UNCHANGED <<object, building, acked, payloadFailed>>
  PROVE  UploadsInv'
<1> DEFINE p == MyPayload(h)
<1>1. /\ p \in Payloads /\ HandlerKnows(payloadHandling[h], payload[p], object[p], p \in acked)
      /\ PayloadKept(p, payload[p], object[p], p \in acked, p \in edited)
  BY WhatIsKnown
<1>2. payload[p].row # "absent"
  BY <1>1 DEF HandlerKnows
<1>3. /\ payload' \in [Payloads -> Uploads!PayloadRow] /\ payload'[p] = r
      /\ \A q \in Payloads \ {p} : payload'[q] = payload[q]
  BY <1>1 DEF UploadsInv, UploadsTypes
<1>4. edited' \subseteq Payloads /\ \A q \in Payloads \ {p} : q \in edited' <=> q \in edited
  BY <1>1 DEF UploadsInv, UploadsTypes
<1> HIDE DEF p
<1>5. StoredMoves(h)
  BY <1>2, <1>3, <1>4 DEF StoredMoves, UploadsInv, UploadsTypes, p
<1>6. PayloadKept(p, payload'[p], object'[p], p \in acked', p \in edited')
  BY <1>1, <1>2, <1>3 DEF PayloadKept, p
<1>7. payloadFailed' \in [Uploads!FaultKinds -> Nat]
  BY DEF UploadsInv, UploadsTypes
<1> QED BY <1>5, <1>6, <1>7, IdleIsTyped, UploadsFramed DEF p

LEMMA UpdatesKeep ==
  ASSUME UploadsInv, NEW h \in Handlers, NEW path \in Uploads!Paths \cup {Null},
         NEW config \in Names \cup {Null}, Uploads!WriteUpdate(h, path, config)
  PROVE  UploadsInv'
<1> DEFINE p == MyPayload(h)
<1>1. /\ payloadHandling[h].pc = "write" /\ UNCHANGED <<object, building, acked, payloadFailed>>
      /\ payloadHandling' = [payloadHandling EXCEPT ![h] = Uploads!Idle]
  BY DEF Uploads!WriteUpdate
<1>2. p \in Payloads /\ payload[p] \in Uploads!PayloadRow /\ payload \in [Payloads -> Uploads!PayloadRow]
  BY <1>1, WhatIsKnown DEF UploadsInv, UploadsTypes
<1>3. CASE Uploads!Live(p)
  <2> DEFINE r == [payload[p] EXCEPT !.path = IF path = Null THEN payload[p].path ELSE path,
                                     !.config = IF config = Null THEN payload[p].config ELSE config]
  <2>1. payload' = [payload EXCEPT ![p].path = IF path = Null THEN @ ELSE path,
                                   ![p].config = IF config = Null THEN @ ELSE config]
        /\ edited' = IF path = Null /\ config = Null THEN edited ELSE edited \cup {p}
    BY <1>3 DEF Uploads!WriteUpdate, MyPayload
  <2>2. payload' = [payload EXCEPT ![p] = r]
    BY <1>2, <2>1 DEF Uploads!PayloadRow
  <2>3. /\ r \in Uploads!PayloadRow /\ r.row = "live"
        /\ path = Null => r.path = payload[p].path
        /\ config = Null => r.config = payload[p].config
        /\ r.path \in {path, payload[p].path} /\ r.config \in {config, payload[p].config}
    BY <1>2, <1>3 DEF Uploads!PayloadRow, Uploads!Live
  <2> HIDE DEF r
  <2>4. edited' \in {edited, edited \cup {p}}
    BY <2>1
  <2>5. p \notin edited' => path = Null /\ config = Null
    BY <2>1
  <2> QED BY <1>1, <2>2, <2>3, <2>4, <2>5, EditsKeep
<1>4. CASE ~Uploads!Live(p)
  <2>1. UNCHANGED <<payload, edited>>
    BY <1>4 DEF Uploads!WriteUpdate, MyPayload
  <2>2. payloadFailed' \in [Uploads!FaultKinds -> Nat]
    BY <1>1 DEF UploadsInv, UploadsTypes
  <2> QED BY <1>1, <2>1, <2>2, CallLetsGo
<1> QED BY <1>3, <1>4

LEMMA DeletionsKeep ==
  ASSUME UploadsInv, NEW h \in Handlers, Uploads!WriteDelete(h)
  PROVE  UploadsInv'
<1> DEFINE p == MyPayload(h)
           r == [payload[p] EXCEPT !.row = "deleted"]
<1>1. /\ payloadHandling[h].pc = "delete" /\ UNCHANGED <<object, building, acked, edited, payloadFailed>>
      /\ payloadHandling' = [payloadHandling EXCEPT ![h] = Uploads!Idle]
  BY DEF Uploads!WriteDelete
<1>2. p \in Payloads /\ payload[p] \in Uploads!PayloadRow /\ payload \in [Payloads -> Uploads!PayloadRow]
  BY <1>1, WhatIsKnown DEF UploadsInv, UploadsTypes
<1>3. CASE Uploads!Live(p)
  <2>1. payload' = [payload EXCEPT ![p] = r]
    BY <1>2, <1>3 DEF Uploads!WriteDelete, MyPayload
  <2>2. /\ r \in Uploads!PayloadRow /\ r.row = "deleted"
        /\ r.path = payload[p].path /\ r.config = payload[p].config
    BY <1>2 DEF Uploads!PayloadRow
  <2> HIDE DEF r
  <2> QED BY <1>1, <2>1, <2>2, EditsKeep
<1>4. CASE ~Uploads!Live(p)
  <2>1. UNCHANGED payload
    BY <1>4 DEF Uploads!WriteDelete, MyPayload
  <2>2. payloadFailed' \in [Uploads!FaultKinds -> Nat]
    BY <1>1 DEF UploadsInv, UploadsTypes
  <2> QED BY <1>1, <2>1, <2>2, CallLetsGo
<1> QED BY <1>3, <1>4

\* A call that fails, or ends with its server, lets go of its payload.
LEMMA FailuresKeep ==
  ASSUME UploadsInv, NEW h \in Handlers, Uploads!StatementFails(h) \/ Uploads!CrashApi(h)
  PROVE  UploadsInv'
<1>1. /\ payloadHandling[h].pc # "idle" /\ UNCHANGED <<payload, object, building, acked, edited>>
      /\ payloadHandling' = [payloadHandling EXCEPT ![h] = Uploads!Idle]
  BY DEF Uploads!StatementFails, Uploads!CrashApi
<1>2. payloadFailed' \in [Uploads!FaultKinds -> Nat]
  BY UploadsFail DEF Uploads!StatementFails, Uploads!CrashApi, Uploads!FaultKinds, UploadsInv
<1> QED BY <1>1, <1>2, CallLetsGo

-----------------------------------------------------------------------------
(* Payload: deployments *)

LEMMA BuildersFramed ==
  ASSUME UploadsInv, NEW b \in Builders, NEW c \in Uploads!Building,
         building' = [building EXCEPT ![b] = c],
         c.pc # "idle" => BuilderKnows(c, payload[c.payload], object[c.payload], c.payload \in acked),
         UNCHANGED <<payload, object, payloadHandling, acked, edited>>,
         payloadFailed' \in [Uploads!FaultKinds -> Nat]
  PROVE  UploadsInv'
<1>1. building \in [Builders -> Uploads!Building]
  BY DEF UploadsInv, UploadsTypes
<1>2. /\ building' \in [Builders -> Uploads!Building] /\ building'[b] = c
      /\ \A d \in Builders \ {b} : building'[d] = building[d]
  BY <1>1
<1>3. UploadsTypes'
  BY <1>2 DEF UploadsInv, UploadsTypes
<1>4. ASSUME NEW d \in Builders, building'[d].pc # "idle"
      PROVE  BuilderKnows(building'[d], payload[building'[d].payload], object[building'[d].payload],
                          building'[d].payload \in acked)
  BY <1>2, <1>4 DEF UploadsInv
<1> QED BY <1>3, <1>4 DEF UploadsInv, MyPayload

LEMMA LoadsPayloadKeep ==
  ASSUME UploadsInv, NEW b \in Builders, NEW p \in Payloads, Uploads!LoadPayload(b, p)
  PROVE  UploadsInv'
<1> DEFINE c == [Uploads!NotBuilding EXCEPT !.pc = "download", !.payload = p, !.path = payload[p].path,
                                            !.config = payload[p].config, !.asCreated = p \notin edited]
<1>1. /\ Uploads!NotBuilding \in Uploads!Building
      /\ payload[p] \in Uploads!PayloadRow /\ payload[p].row = "live"
      /\ PayloadKept(p, payload[p], object[p], p \in acked, p \in edited)
  BY DEF UploadsInv, UploadsTypes, Uploads!NotBuilding, Uploads!Building, Uploads!LoadPayload, Uploads!Live
<1>2. payload[p].path \in Uploads!Paths \cup {Null} /\ payload[p].config \in Names \cup {Null}
  BY <1>1 DEF Uploads!PayloadRow
<1>3. /\ c \in Uploads!Building /\ c.pc = "download" /\ c.payload = p /\ c.path = payload[p].path
      /\ c.config = payload[p].config /\ c.asCreated = (p \notin edited)
  BY <1>1, <1>2 DEF Uploads!Building
<1>4. building' = [building EXCEPT ![b] = c]
  BY DEF Uploads!LoadPayload
<1> HIDE DEF c
<1>5. BuilderKnows(c, payload[c.payload], object[c.payload], c.payload \in acked)
  BY <1>1, <1>3 DEF BuilderKnows, PayloadKept
<1>6. payloadFailed' \in [Uploads!FaultKinds -> Nat]
  BY DEF UploadsInv, UploadsTypes, Uploads!LoadPayload
<1> QED BY <1>3, <1>4, <1>5, <1>6, BuildersFramed DEF Uploads!LoadPayload

\* A deployment goes on: its record with another step, perhaps a bundle, and
\* spoiled when the storage failed.
BuilderMoves(b, step, bundle, spoiled) ==
    \/ /\ building' = [building EXCEPT ![b].pc = step, ![b].bundle = bundle]
       /\ spoiled = building[b].spoiled
    \/ /\ building' = [building EXCEPT ![b].pc = step]
       /\ bundle = building[b].bundle /\ spoiled = building[b].spoiled
    \/ /\ building' = [building EXCEPT ![b].pc = step, ![b].spoiled = TRUE]
       /\ bundle = building[b].bundle /\ spoiled = TRUE

BuilderBecomes(b, c, step, bundle, spoiled) ==
    /\ building' = [building EXCEPT ![b] = c]
    /\ c.pc = step /\ c.bundle = bundle /\ c.spoiled = spoiled
    /\ c.payload = building[b].payload /\ c.path = building[b].path
    /\ c.config = building[b].config /\ c.asCreated = building[b].asCreated

LEMMA BuilderGoesOn ==
  ASSUME UploadsInv, NEW b \in Builders,
         NEW step \in {"deliver", "delivered", "failed"}, NEW bundle \in Seq(Uploads!Entry) \cup {Null},
         NEW spoiled \in BOOLEAN, BuilderMoves(b, step, bundle, spoiled)
  PROVE  \E c \in Uploads!Building : BuilderBecomes(b, c, step, bundle, spoiled)
<1>1. building[b] \in Uploads!Building /\ building \in [Builders -> Uploads!Building]
  BY DEF UploadsInv, UploadsTypes
<1> DEFINE c == [building[b] EXCEPT !.pc = step, !.bundle = bundle, !.spoiled = spoiled]
<1>2. c \in Uploads!Building
  BY <1>1 DEF Uploads!Building
<1>3. building' = [building EXCEPT ![b] = c]
  <2>1. CASE building' = [building EXCEPT ![b].pc = step, ![b].bundle = bundle] /\ spoiled = building[b].spoiled
    <3>1. building' = [building EXCEPT ![b] = [building[b] EXCEPT !.pc = step, !.bundle = bundle]]
      BY <1>1, <2>1
    <3>2. [building[b] EXCEPT !.pc = step, !.bundle = bundle] = c
      BY <1>1, <2>1 DEF Uploads!Building
    <3> QED BY <3>1, <3>2
  <2>2. CASE /\ building' = [building EXCEPT ![b].pc = step]
             /\ bundle = building[b].bundle /\ spoiled = building[b].spoiled
    <3>1. building' = [building EXCEPT ![b] = [building[b] EXCEPT !.pc = step]]
      BY <1>1, <2>2
    <3>2. [building[b] EXCEPT !.pc = step] = c
      BY <1>1, <2>2 DEF Uploads!Building
    <3> QED BY <3>1, <3>2
  <2>3. CASE /\ building' = [building EXCEPT ![b].pc = step, ![b].spoiled = TRUE]
             /\ bundle = building[b].bundle /\ spoiled = TRUE
    <3>1. building' = [building EXCEPT ![b] = [building[b] EXCEPT !.pc = step, !.spoiled = TRUE]]
      BY <1>1, <2>3
    <3>2. [building[b] EXCEPT !.pc = step, !.spoiled = TRUE] = c
      BY <1>1, <2>3 DEF Uploads!Building
    <3> QED BY <3>1, <3>2
  <2> QED BY <2>1, <2>2, <2>3 DEF BuilderMoves
<1> WITNESS c \in Uploads!Building
<1> QED BY <1>1, <1>3 DEF Uploads!Building, BuilderBecomes

\* What a download of an object gives.
LEMMA DownloadsGive ==
  ASSUME UploadsInv, NEW b \in Builders, building[b].pc = "download", building[b].asCreated,
         NEW keyed \in BOOLEAN
  PROVE  LET stored == Uploads!Stored(building[b].path)
             bundle == IF stored = Null THEN Broken
                       ELSE Uploads!Inject(Uploads!Limited(stored), building[b].config, keyed)
         IN  /\ stored = object[building[b].payload]
             /\ stored # Null /\ Uploads!Readable(stored) =>
                   bundle # Broken /\ Ready(bundle, building[b].config)
             /\ stored # Null /\ ~Uploads!Readable(stored) => bundle = Broken
             /\ stored = Null => bundle = Broken
<1> DEFINE p == building[b].payload
           stored == Uploads!Stored(building[b].path)
<1>1. BuilderKnows(building[b], payload[p], object[p], p \in acked)
  BY DEF UploadsInv
<1>2. stored = object[p]
  BY <1>1 DEF BuilderKnows, Uploads!Stored
<1>3. stored # Null => stored \in Uploads!Archive /\ Uploads!Accepted(stored, building[b].config)
  BY <1>1, <1>2 DEF BuilderKnows
<1> HIDE DEF stored
<1>4. stored # Null => Uploads!Limited(stored) = stored
  BY <1>3 DEF Uploads!Limited, Uploads!Accepted
<1>5. stored # Null /\ ~Uploads!Readable(stored) =>
         Uploads!Inject(stored, building[b].config, keyed) = Broken
  BY DEF Uploads!Inject
<1>6. stored # Null /\ Uploads!Readable(stored) =>
         /\ Uploads!Inject(stored, building[b].config, keyed) # Broken
         /\ Ready(Uploads!Inject(stored, building[b].config, keyed), building[b].config)
  BY <1>3, BundleOf, AcceptedIsConfigured
<1> QED BY <1>2, <1>4, <1>5, <1>6 DEF stored

\* A bundle is a sequence of entries, whatever object it is made of.
LEMMA BundleIsTyped ==
  ASSUME UploadsInv, NEW path, NEW config, NEW keyed \in BOOLEAN
  PROVE  LET stored == Uploads!Stored(path)
             bundle == IF stored = Null THEN Broken
                       ELSE Uploads!Inject(Uploads!Limited(stored), config, keyed)
         IN  bundle # Broken => bundle \in Seq(Uploads!Entry)
<1> DEFINE stored == Uploads!Stored(path)
           limited == Uploads!Limited(stored)
<1>1. stored \in Uploads!Archive \cup {Broken, Null}
  BY DEF UploadsInv, UploadsTypes, Uploads!Stored
<1> HIDE DEF stored
<1>2. stored # Null => limited \in Uploads!Archive \cup {Broken}
  BY <1>1 DEF Uploads!Limited
<1> HIDE DEF limited
<1>3. stored # Null /\ Uploads!Inject(limited, config, keyed) # Broken =>
         limited \in Uploads!Archive /\ Uploads!Readable(limited)
  BY <1>2 DEF Uploads!Inject
<1> QED BY <1>3, BundleOf DEF limited, stored

LEMMA DownloadsKeep ==
  ASSUME UploadsInv, NEW b \in Builders, NEW keyed \in BOOLEAN, Uploads!Download(b, keyed)
  PROVE  UploadsInv'
<1> DEFINE p == building[b].payload
           stored == Uploads!Stored(building[b].path)
           bundle == IF stored = Null THEN Broken
                     ELSE Uploads!Inject(Uploads!Limited(stored), building[b].config, keyed)
<1>1. /\ building[b].pc = "download" /\ UNCHANGED <<payload, object, payloadHandling, acked, edited>>
      /\ building[b] \in Uploads!Building
  BY DEF Uploads!Download, UploadsInv, UploadsTypes
<1>2. BuilderKnows(building[b], payload[p], object[p], p \in acked)
  BY <1>1 DEF UploadsInv
<1>3. payloadFailed' \in [Uploads!FaultKinds -> Nat]
  BY UploadsFail DEF Uploads!Download, Uploads!FaultKinds, UploadsInv, UploadsTypes
<1>4. building[b].asCreated =>
         /\ stored = object[p]
         /\ stored # Null /\ Uploads!Readable(stored) =>
               bundle # Broken /\ Ready(bundle, building[b].config)
         /\ stored # Null /\ ~Uploads!Readable(stored) => bundle = Broken
         /\ stored = Null => bundle = Broken
  BY <1>1, DownloadsGive
<1>5. bundle # Broken => bundle \in Seq(Uploads!Entry)
  BY BundleIsTyped
<1>6. /\ building[b].bundle \in Seq(Uploads!Entry) \cup {Null} /\ building[b].spoiled \in BOOLEAN
      /\ building[b].asCreated \in BOOLEAN
  BY <1>1 DEF Uploads!Building
<1>7. \/ bundle # Broken /\ building' = [building EXCEPT ![b].pc = "deliver", ![b].bundle = bundle]
      \/ bundle = Broken /\ building' = [building EXCEPT ![b].pc = "failed"]
      \/ building' = [building EXCEPT ![b].pc = "failed", ![b].spoiled = TRUE]
  BY DEF Uploads!Download
<1> HIDE DEF bundle, stored
<1>8. CASE bundle # Broken /\ building' = [building EXCEPT ![b].pc = "deliver", ![b].bundle = bundle]
  <2>1. BuilderMoves(b, "deliver", bundle, building[b].spoiled)
    BY <1>8 DEF BuilderMoves
  <2>2. PICK c \in Uploads!Building : BuilderBecomes(b, c, "deliver", bundle, building[b].spoiled)
    BY <1>5, <1>6, <1>8, <2>1, BuilderGoesOn
  <2>3. BuilderKnows(c, payload[c.payload], object[c.payload], c.payload \in acked)
    BY <1>1, <1>2, <1>4, <1>8, <2>2 DEF BuilderKnows, BuilderBecomes
  <2> QED BY <1>1, <1>3, <2>2, <2>3, BuildersFramed DEF BuilderBecomes
<1>9. CASE bundle = Broken /\ building' = [building EXCEPT ![b].pc = "failed"]
  <2>1. BuilderMoves(b, "failed", building[b].bundle, building[b].spoiled)
    BY <1>9 DEF BuilderMoves
  <2>2. PICK c \in Uploads!Building :
           BuilderBecomes(b, c, "failed", building[b].bundle, building[b].spoiled)
    BY <1>6, <2>1, BuilderGoesOn
  <2>3. c.asCreated /\ p \in acked => object[p] # Null
    BY <1>2, <2>2 DEF BuilderKnows, BuilderBecomes, UploadsInv, PayloadKept
  <2>4. BuilderKnows(c, payload[c.payload], object[c.payload], c.payload \in acked)
    BY <1>1, <1>2, <1>4, <1>9, <2>2, <2>3 DEF BuilderKnows, BuilderBecomes
  <2> QED BY <1>1, <1>3, <2>2, <2>4, BuildersFramed DEF BuilderBecomes
<1>10. CASE building' = [building EXCEPT ![b].pc = "failed", ![b].spoiled = TRUE]
  <2>1. BuilderMoves(b, "failed", building[b].bundle, TRUE)
    BY <1>10 DEF BuilderMoves
  <2>2. PICK c \in Uploads!Building : BuilderBecomes(b, c, "failed", building[b].bundle, TRUE)
    BY <1>6, <2>1, BuilderGoesOn
  <2>3. BuilderKnows(c, payload[c.payload], object[c.payload], c.payload \in acked)
    BY <1>1, <1>2, <2>2 DEF BuilderKnows, BuilderBecomes
  <2> QED BY <1>1, <1>3, <2>2, <2>3, BuildersFramed DEF BuilderBecomes
<1> QED BY <1>7, <1>8, <1>9, <1>10

LEMMA DeliveriesKeep ==
  ASSUME UploadsInv, NEW b \in Builders, Uploads!Deliver(b)
  PROVE  UploadsInv'
<1> DEFINE p == building[b].payload
<1>1. /\ building[b].pc = "deliver" /\ UNCHANGED <<payload, object, payloadHandling, acked, edited>>
      /\ building[b].bundle \in Seq(Uploads!Entry) \cup {Null} /\ building[b].spoiled \in BOOLEAN
  BY DEF Uploads!Deliver, UploadsInv, UploadsTypes, Uploads!Building
<1>2. BuilderKnows(building[b], payload[p], object[p], p \in acked)
  BY <1>1 DEF UploadsInv
<1>3. payloadFailed' \in [Uploads!FaultKinds -> Nat]
  BY UploadsFail DEF Uploads!Deliver, Uploads!FaultKinds, UploadsInv, UploadsTypes
<1>4. PICK step \in {"delivered", "failed"}, spoiled \in BOOLEAN :
         BuilderMoves(b, step, building[b].bundle, spoiled) /\ (step = "failed" => spoiled)
  BY <1>1 DEF Uploads!Deliver, BuilderMoves
<1>5. PICK c \in Uploads!Building : BuilderBecomes(b, c, step, building[b].bundle, spoiled)
  BY <1>1, <1>4, BuilderGoesOn
<1>6. BuilderKnows(c, payload[c.payload], object[c.payload], c.payload \in acked)
  BY <1>1, <1>2, <1>4, <1>5 DEF BuilderKnows, BuilderBecomes
<1> QED BY <1>1, <1>3, <1>5, <1>6, BuildersFramed DEF BuilderBecomes

LEMMA HandlersKeep ==
  ASSUME UploadsInv, NEW h \in Handlers, Uploads!HandlerStep(h)
  PROVE  UploadsInv'
<1>1. CASE \E p \in Payloads, a \in Archives, config \in Names : Uploads!CreatePayload(h, p, a, config)
  BY <1>1, CreatesKeep
<1>2. CASE \E p \in Payloads : Uploads!FindPayload(h, p, "write") \/ Uploads!FindPayload(h, p, "delete")
  BY <1>2, FindsKeep
<1>3. CASE \E path \in Uploads!Paths \cup {Null}, config \in Names \cup {Null} :
              Uploads!WriteUpdate(h, path, config)
  BY <1>3, UpdatesKeep
<1> QED BY <1>1, <1>2, <1>3, UploadsKeep, InsertsRowsKeep, CleanUpsKeep, DeletionsKeep, FailuresKeep
        DEF Uploads!HandlerStep

LEMMA UploadsInvKept ==
  ASSUME UploadsInv, [Uploads!Next]_(Uploads!vars)
  PROVE  UploadsInv'
<1>1. ASSUME NEW b \in Builders, Uploads!BuilderStep(b) PROVE UploadsInv'
  BY <1>1, LoadsPayloadKeep, DownloadsKeep, DeliveriesKeep DEF Uploads!BuilderStep
<1>2. CASE UNCHANGED Uploads!vars
  BY <1>2 DEF Uploads!vars, UploadsInv, UploadsTypes, MyPayload
<1> QED BY <1>1, <1>2, HandlersKeep DEF Uploads!Next

\* A payload that was acknowledged, and that nobody edited, can be deployed, but
\* for a failure of the storage and for entries that validate did not open
\* (service/payload.go:38-58, jobs/deploy.go:180-188).
THEOREM AcknowledgedPayloadsBuild == Uploads!Spec => []AcknowledgedPayloadBuilds
<1>1. UploadsInv => AcknowledgedPayloadBuilds
  BY DEF UploadsInv, BuilderKnows, AcknowledgedPayloadBuilds, Uploads!AcknowledgedPayloadBuilds
<1> QED BY <1>1, UploadsInit, UploadsInvKept, PTL DEF Uploads!Spec

\* What is installed from a payload that was not edited when its row was read
\* leaves a config with the address of the webhook and a token, unless a later
\* entry of the same name is extracted over it (service/payload.go:38-58,
\* jobs/deploy.go:182-211, infra/ssh.go:64).
THEOREM EveryBundleIsConfigured == Uploads!Spec => []InstalledIsConfigured
<1>1. UploadsInv => InstalledIsConfigured
  BY DEF UploadsInv, BuilderKnows, Ready, InstalledIsConfigured, Uploads!InstalledIsConfigured
<1> QED BY <1>1, UploadsInit, UploadsInvKept, PTL DEF Uploads!Spec

-----------------------------------------------------------------------------
(* Payload: what was lost is paid for *)

\* A payload is lost when its object has neither a row nor a call that still
\* will make one, or its row has no object, or a call that is about to take it.
Lost(p) ==
    \/ /\ object[p] # Null /\ payload[p].row = "absent"
       /\ \A h \in Handlers : MyPayload(h) # p
    \/ /\ p \notin edited /\ payload[p].row = "live"
       /\ \/ object[p] = Null
          \/ \E h \in Handlers : payloadHandling[h].pc = "cleanup" /\ MyPayload(h) = p

Losses == {p \in Payloads : Lost(p)}

Paid == payloadFailed["storage"] + payloadFailed["lostReply"] + payloadFailed["apiCrash"]

LossInv ==
    /\ IsFiniteSet(Losses)
    /\ Cardinality(Losses) <= Paid

LEMMA UploadsCount == ASSUME NEW S PROVE Uploads!Cardinality(S) = Cardinality(S)
BY DEF Uploads!Cardinality, Cardinality

LEMMA PaidIsCounted ==
  ASSUME UploadsTypes
  PROVE  Paid \in Nat
BY DEF UploadsTypes, Uploads!FaultKinds, Paid

LEMMA LossesAreCounted ==
  ASSUME UploadsTypes, LossInv
  PROVE  Uploads!LossesArePaidFor
<1>1. Uploads!Orphans \subseteq Losses /\ Uploads!Dangling \subseteq Losses
  BY DEF Uploads!Orphans, Uploads!Dangling, Uploads!Live, Losses, Lost, MyPayload
<1>2. Uploads!Orphans \cap Uploads!Dangling = {}
  BY DEF Uploads!Orphans, Uploads!Dangling
<1>3. IsFiniteSet(Uploads!Orphans) /\ IsFiniteSet(Uploads!Dangling)
  BY <1>1, FS_Subset DEF LossInv
<1>4. /\ Cardinality(Uploads!Orphans \cup Uploads!Dangling) =
            Cardinality(Uploads!Orphans) + Cardinality(Uploads!Dangling) - Cardinality({})
      /\ Cardinality(Uploads!Orphans) \in Nat /\ Cardinality(Uploads!Dangling) \in Nat
  <2>1. Cardinality(Uploads!Orphans \cup Uploads!Dangling) =
           Cardinality(Uploads!Orphans) + Cardinality(Uploads!Dangling)
              - Cardinality(Uploads!Orphans \cap Uploads!Dangling)
    BY <1>3, FS_Union
  <2>2. Cardinality(Uploads!Orphans \cap Uploads!Dangling) = Cardinality({})
    BY <1>2
  <2>3. Cardinality(Uploads!Orphans) \in Nat /\ Cardinality(Uploads!Dangling) \in Nat
    BY <1>3, FS_CardinalityType
  <2> QED BY <2>1, <2>2, <2>3
<1>5. Cardinality(Uploads!Orphans \cup Uploads!Dangling) <= Cardinality(Losses)
      /\ Cardinality(Losses) \in Nat /\ Cardinality(Uploads!Orphans \cup Uploads!Dangling) \in Nat
  <2>1. Uploads!Orphans \cup Uploads!Dangling \in SUBSET Losses
    BY <1>1
  <2>2. IsFiniteSet(Uploads!Orphans \cup Uploads!Dangling)
    BY <1>3, FS_Union
  <2> QED BY <2>1, <2>2, FS_Subset, FS_CardinalityType DEF LossInv
<1>6. Cardinality(Uploads!Orphans) + Cardinality(Uploads!Dangling) <= Paid
  BY <1>4, <1>5, FS_EmptySet, PaidIsCounted DEF LossInv
<1> QED BY <1>6, UploadsCount DEF Uploads!LossesArePaidFor, Paid

\* A step loses at most one payload, and pays for it.
LEMMA LossFramed ==
  ASSUME UploadsTypes, UploadsTypes', LossInv, NEW p,
         \/ Losses' \subseteq Losses /\ Paid' >= Paid
         \/ Losses' \subseteq Losses \cup {p} /\ Paid' = Paid + 1
  PROVE  LossInv'
<1>1. Paid \in Nat /\ Paid' \in Nat
  BY PaidIsCounted DEF UploadsTypes, Uploads!FaultKinds, Paid
<1>2. IsFiniteSet(Losses) /\ Cardinality(Losses) \in Nat /\ Cardinality(Losses) <= Paid
  BY FS_CardinalityType DEF LossInv
<1>3. CASE Losses' \subseteq Losses /\ Paid' >= Paid
  <2>1. IsFiniteSet(Losses') /\ Cardinality(Losses') <= Cardinality(Losses) /\ Cardinality(Losses') \in Nat
    BY <1>2, <1>3, FS_Subset, FS_CardinalityType
  <2> QED BY <1>1, <1>2, <1>3, <2>1 DEF LossInv
<1>4. CASE Losses' \subseteq Losses \cup {p} /\ Paid' = Paid + 1
  <2>1. IsFiniteSet(Losses') /\ Cardinality(Losses') <= Cardinality(Losses) + 1
    BY <1>2, <1>4, SetGrows
  <2>2. Cardinality(Losses') \in Nat
    BY <2>1, FS_CardinalityType
  <2> QED BY <1>1, <1>2, <1>4, <2>1, <2>2 DEF LossInv
<1> QED BY <1>3, <1>4

\* What each kind of failure pays.
LEMMA WhatIsPaid ==
  ASSUME UploadsTypes, NEW k \in Uploads!FaultKinds, Uploads!Fail(k)
  PROVE  Paid' = IF k = "db" THEN Paid ELSE Paid + 1
<1>1. /\ payloadFailed'[k] = payloadFailed[k] + 1
      /\ \A j \in Uploads!FaultKinds \ {k} : payloadFailed'[j] = payloadFailed[j]
  BY UploadsFail
<1>2. \A j \in Uploads!FaultKinds : payloadFailed[j] \in Nat
  BY DEF UploadsTypes
<1>3. Uploads!FaultKinds = {"storage", "db", "lostReply", "apiCrash"}
  BY DEF Uploads!FaultKinds
<1>4. CASE k = "db"
  BY <1>1, <1>3, <1>4 DEF Paid
<1>5. CASE k = "storage"
  BY <1>1, <1>2, <1>3, <1>5 DEF Paid
<1>6. CASE k = "lostReply"
  BY <1>1, <1>2, <1>3, <1>6 DEF Paid
<1>7. CASE k = "apiCrash"
  BY <1>1, <1>2, <1>3, <1>7 DEF Paid
<1> QED BY <1>3, <1>4, <1>5, <1>6, <1>7

\* What is not the payload of the call is lost or not as before.
LEMMA LossIsMine ==
  ASSUME UploadsInv, NEW h \in Handlers, NEW p \in Payloads,
         \A q \in Payloads \ {p} :
            /\ payload'[q] = payload[q] /\ object'[q] = object[q]
            /\ q \in edited' <=> q \in edited,
         \A k \in Handlers \ {h} : payloadHandling'[k] = payloadHandling[k],
         MyPayload(h) \in {p, Null}, MyPayload(h)' \in {p, Null}
  PROVE  /\ Losses' \subseteq Losses \cup {p}
         /\ (Lost(p)' => Lost(p)) => Losses' \subseteq Losses
<1>1. Null \notin Payloads
  BY PayloadAssumptions DEF Uploads!Assumptions
<1>2. ASSUME NEW q \in Payloads \ {p} PROVE Lost(q)' => Lost(q)
  <2>1. MyPayload(h) # q /\ MyPayload(h)' # q
    BY <1>1, <1>2
  <2>2. \A k \in Handlers : k # h => MyPayload(k)' = MyPayload(k)
    BY DEF MyPayload
  <2> QED BY <1>2, <2>1, <2>2 DEF Lost
<1> QED BY <1>2 DEF Losses

\* The payload of the others does not become that of a call by its step.
LEMMA OthersAlike ==
  ASSUME UploadsInv, NEW h \in Handlers, NEW c, payloadHandling' = [payloadHandling EXCEPT ![h] = c]
  PROVE  /\ payloadHandling'[h] = c /\ MyPayload(h)' = c.payload
         /\ \A k \in Handlers \ {h} :
               payloadHandling'[k] = payloadHandling[k] /\ MyPayload(k)' = MyPayload(k)
BY DEF UploadsInv, UploadsTypes, MyPayload

LEMMA LossOfBegin ==
  ASSUME UploadsInv, NEW h \in Handlers, NEW p \in Payloads,
         \/ \E a \in Archives, config \in Names : Uploads!CreatePayload(h, p, a, config)
         \/ \E next \in {"write", "delete"} : Uploads!FindPayload(h, p, next)
  PROVE  Losses' \subseteq Losses /\ Paid' = Paid
<1>1. /\ UNCHANGED <<payload, object, edited, payloadFailed>> /\ payloadHandling[h] = Uploads!Idle
      /\ \E c : /\ payloadHandling' = [payloadHandling EXCEPT ![h] = c]
                /\ c.payload = p /\ c.pc # "cleanup"
  <2>1. CASE \E a \in Archives, config \in Names : Uploads!CreatePayload(h, p, a, config)
    BY <2>1 DEF Uploads!CreatePayload, UploadsInv
  <2>2. CASE \E next \in {"write", "delete"} : Uploads!FindPayload(h, p, next)
    <3>1. PICK next \in {"write", "delete"} : Uploads!FindPayload(h, p, next)
      BY <2>2
    <3> DEFINE c == [Uploads!Idle EXCEPT !.pc = next, !.payload = p]
    <3>2. c.payload = p /\ c.pc # "cleanup"
      BY IdleIsTyped DEF Uploads!Handling
    <3>3. payloadHandling' = [payloadHandling EXCEPT ![h] = c]
      BY <3>1 DEF Uploads!FindPayload
    <3> HIDE DEF c
    <3> QED BY <3>1, <3>2, <3>3 DEF Uploads!FindPayload, UploadsInv
  <2> QED BY <2>1, <2>2
<1>2. PICK c : /\ payloadHandling' = [payloadHandling EXCEPT ![h] = c]
               /\ c.payload = p /\ c.pc # "cleanup"
  BY <1>1
<1>3. /\ payloadHandling'[h] = c /\ MyPayload(h)' = p
      /\ \A k \in Handlers \ {h} :
            payloadHandling'[k] = payloadHandling[k] /\ MyPayload(k)' = MyPayload(k)
  BY <1>2, OthersAlike
<1>4. Lost(p)' => Lost(p)
  BY <1>1, <1>2, <1>3 DEF Lost
<1>5. MyPayload(h) = Null
  BY <1>1, IdleIsTyped DEF MyPayload
<1> QED BY <1>1, <1>3, <1>4, <1>5, LossIsMine DEF Paid

\* A step of a call with its payload; what it does to other payloads is nothing.
LEMMA LossOfMine ==
  ASSUME UploadsInv, NEW h \in Handlers, NEW p \in Payloads, p = MyPayload(h),
         NEW c, payloadHandling' = [payloadHandling EXCEPT ![h] = c],
         c.payload \in {p, Null},
         \A q \in Payloads \ {p} :
            /\ payload'[q] = payload[q] /\ object'[q] = object[q]
            /\ q \in edited' <=> q \in edited
  PROVE  /\ Losses' \subseteq Losses \cup {p}
         /\ (Lost(p)' => Lost(p)) => Losses' \subseteq Losses
         /\ payloadHandling'[h] = c /\ MyPayload(h)' = c.payload
         /\ \A k \in Handlers \ {h} :
               payloadHandling'[k] = payloadHandling[k] /\ MyPayload(k)' = MyPayload(k)
<1>1. /\ payloadHandling'[h] = c /\ MyPayload(h)' = c.payload
      /\ \A k \in Handlers \ {h} :
            payloadHandling'[k] = payloadHandling[k] /\ MyPayload(k)' = MyPayload(k)
  BY OthersAlike
<1> QED BY <1>1, LossIsMine

LEMMA LossOfUpload ==
  ASSUME UploadsInv, NEW h \in Handlers, NEW p \in Payloads, p = MyPayload(h), Uploads!UploadPayload(h)
  PROVE  \/ Losses' \subseteq Losses /\ Paid' >= Paid
         \/ Losses' \subseteq Losses \cup {p} /\ Paid' = Paid + 1
<1>1. payloadHandling[h].pc = "upload" /\ UNCHANGED <<payload, building, acked, edited>>
  BY DEF Uploads!UploadPayload
<1>2. payload[p].row = "absent" /\ object[p] = Null
  BY <1>1, WhatIsKnown DEF HandlerKnows
<1>3. UploadsTypes /\ Paid \in Nat /\ {"storage", "lostReply"} \subseteq Uploads!FaultKinds
  BY PaidIsCounted DEF UploadsInv, Uploads!FaultKinds
<1>4. \A q \in Payloads \ {p} : object'[q] = object[q]
  BY DEF Uploads!UploadPayload, MyPayload, UploadsInv, UploadsTypes
<1>5. CASE payloadHandling' = [payloadHandling EXCEPT ![h].pc = "insert"] /\ UNCHANGED payloadFailed
  <2>1. PICK c \in Uploads!Handling :
           /\ payloadHandling' = [payloadHandling EXCEPT ![h] = c]
           /\ c.pc = "insert" /\ c.payload = p
    BY <1>1, <1>5, CallGoesOn DEF Creating
  <2>2. /\ (Lost(p)' => Lost(p)) => Losses' \subseteq Losses
        /\ MyPayload(h)' = p
    <3>1. \A q \in Payloads \ {p} : /\ payload'[q] = payload[q] /\ object'[q] = object[q]
                                    /\ q \in edited' <=> q \in edited
      BY <1>1, <1>4
    <3>2. payloadHandling' = [payloadHandling EXCEPT ![h] = c] /\ c.payload = p
      BY <2>1
    <3>3. MyPayload(h)' = p /\ \A k \in Handlers \ {h} : payloadHandling'[k] = payloadHandling[k]
      BY <3>2, OthersAlike
    <3>4. Losses' \subseteq Losses \cup {p} /\ ((Lost(p)' => Lost(p)) => Losses' \subseteq Losses)
      BY <3>1, <3>3, LossIsMine
    <3> QED BY <3>3, <3>4
  <2>3. ~ Lost(p)'
    BY <1>1, <1>2, <2>2 DEF Lost
  <2> QED BY <1>3, <1>5, <2>2, <2>3 DEF Paid
<1>6. CASE /\ payloadHandling' = [payloadHandling EXCEPT ![h] = Uploads!Idle]
           /\ Uploads!Fail("storage") \/ Uploads!Fail("lostReply")
  <2>1. Losses' \subseteq Losses \cup {p}
    BY <1>1, <1>4, <1>6, IdleIsTyped, LossOfMine
  <2>2. Paid' = Paid + 1
    BY <1>3, <1>6, WhatIsPaid
  <2> QED BY <2>1, <2>2
<1> QED BY <1>5, <1>6 DEF Uploads!UploadPayload

LEMMA LossOfInsert ==
  ASSUME UploadsInv, NEW h \in Handlers, NEW p \in Payloads, p = MyPayload(h), Uploads!InsertPayload(h)
  PROVE  \/ Losses' \subseteq Losses /\ Paid' >= Paid
         \/ Losses' \subseteq Losses \cup {p} /\ Paid' = Paid + 1
<1>1. payloadHandling[h].pc = "insert" /\ UNCHANGED <<object, building, edited>>
  BY DEF Uploads!InsertPayload
<1>2. /\ payload[p].row = "absent" /\ object[p] = payloadHandling[h].archive
      /\ payloadHandling[h].archive \in Uploads!Archive
  BY <1>1, WhatIsKnown DEF HandlerKnows, Creating
<1>3. object[p] # Null
  BY <1>2, PayloadAssumptions DEF Uploads!Assumptions
<1>4. UploadsTypes /\ Paid \in Nat /\ {"db", "lostReply"} \subseteq Uploads!FaultKinds
  BY PaidIsCounted DEF UploadsInv, Uploads!FaultKinds
<1>5. \A q \in Payloads \ {p} : payload'[q] = payload[q]
  BY DEF Uploads!InsertPayload, MyPayload, UploadsInv, UploadsTypes
<1>6. CASE /\ payloadHandling' = [payloadHandling EXCEPT ![h] = Uploads!Idle] /\ UNCHANGED payloadFailed
           /\ payload' = [payload EXCEPT ![p] = Uploads!NewRow(h)]
  <2>1. /\ (Lost(p)' => Lost(p)) => Losses' \subseteq Losses
        /\ payloadHandling'[h] = Uploads!Idle
        /\ \A k \in Handlers \ {h} :
              payloadHandling'[k] = payloadHandling[k] /\ MyPayload(k)' = MyPayload(k)
    <3>1. \A q \in Payloads \ {p} : /\ payload'[q] = payload[q] /\ object'[q] = object[q]
                                    /\ q \in edited' <=> q \in edited
      BY <1>1, <1>5
    <3> DEFINE c == Uploads!Idle
    <3>2. payloadHandling' = [payloadHandling EXCEPT ![h] = c] /\ c.payload \in {p, Null}
      BY <1>6, IdleIsTyped
    <3>3. payloadHandling'[h] = c
      BY <1>4, <1>6 DEF UploadsTypes
    <3> HIDE DEF c
    <3>4. /\ MyPayload(h)' \in {p, Null}
          /\ \A k \in Handlers \ {h} :
                payloadHandling'[k] = payloadHandling[k] /\ MyPayload(k)' = MyPayload(k)
      BY <3>2, OthersAlike
    <3>5. (Lost(p)' => Lost(p)) => Losses' \subseteq Losses
      BY <3>1, <3>4, LossIsMine
    <3> QED BY <3>3, <3>4, <3>5 DEF c
  <2>2. payload'[p].row = "live"
    BY <1>6 DEF UploadsInv, UploadsTypes, Uploads!NewRow
  <2>3. ASSUME NEW k \in Handlers, payloadHandling'[k].pc = "cleanup", MyPayload(k)' = p PROVE FALSE
    <3>1. k # h
      BY <2>1, <2>3, IdleIsTyped
    <3>2. payloadHandling[k].pc = "cleanup" /\ MyPayload(k) = MyPayload(h)
      BY <2>1, <2>3, <3>1
    <3> QED BY <1>1, <3>1, <3>2 DEF UploadsInv, Creating
  <2>4. ~ Lost(p)'
    BY <1>1, <1>3, <2>2, <2>3 DEF Lost
  <2> QED BY <1>4, <1>6, <2>1, <2>4 DEF Paid
<1>7. CASE payloadHandling' = [payloadHandling EXCEPT ![h].pc = "cleanup"]
  <2>1. PICK c \in Uploads!Handling :
           /\ payloadHandling' = [payloadHandling EXCEPT ![h] = c]
           /\ c.pc = "cleanup" /\ c.payload = p
    BY <1>1, <1>7, CallGoesOn DEF Creating
  <2>2. /\ Losses' \subseteq Losses \cup {p}
        /\ (Lost(p)' => Lost(p)) => Losses' \subseteq Losses
        /\ MyPayload(h)' = p
    <3>1. \A q \in Payloads \ {p} : /\ payload'[q] = payload[q] /\ object'[q] = object[q]
                                    /\ q \in edited' <=> q \in edited
      BY <1>1, <1>5
    <3>2. payloadHandling' = [payloadHandling EXCEPT ![h] = c] /\ c.payload = p
      BY <2>1
    <3>3. MyPayload(h)' = p /\ \A k \in Handlers \ {h} : payloadHandling'[k] = payloadHandling[k]
      BY <3>2, OthersAlike
    <3>4. Losses' \subseteq Losses \cup {p} /\ ((Lost(p)' => Lost(p)) => Losses' \subseteq Losses)
      BY <3>1, <3>3, LossIsMine
    <3> QED BY <3>3, <3>4
  <2>3. CASE Uploads!Fail("db") /\ UNCHANGED payload
    <3>1. ~ Lost(p)'
      BY <1>2, <2>2, <2>3 DEF Lost
    <3>2. Paid' = Paid
      BY <1>4, <2>3, WhatIsPaid
    <3> QED BY <1>4, <2>2, <3>1, <3>2
  <2>4. CASE Uploads!Fail("lostReply")
    <3>1. Paid' = Paid + 1
      BY <1>4, <2>4, WhatIsPaid
    <3> QED BY <2>2, <3>1
  <2>5. CASE UNCHANGED payloadFailed /\ payloadHandling' = [payloadHandling EXCEPT ![h] = Uploads!Idle]
    <3>1. payloadHandling'[h] = Uploads!Idle /\ payloadHandling'[h] = c
      BY <2>1, <2>5 DEF UploadsInv, UploadsTypes
    <3> QED BY <2>1, <3>1, IdleIsTyped
  <2> QED BY <2>3, <2>4, <2>5 DEF Uploads!InsertPayload
<1> QED BY <1>6, <1>7 DEF Uploads!InsertPayload, MyPayload

LEMMA LossOfCleanUp ==
  ASSUME UploadsInv, NEW h \in Handlers, NEW p \in Payloads, p = MyPayload(h), Uploads!CleanUp(h)
  PROVE  \/ Losses' \subseteq Losses /\ Paid' >= Paid
         \/ Losses' \subseteq Losses \cup {p} /\ Paid' = Paid + 1
<1>1. /\ payloadHandling[h].pc = "cleanup" /\ UNCHANGED <<payload, edited>>
      /\ payloadHandling' = [payloadHandling EXCEPT ![h] = Uploads!Idle]
  BY DEF Uploads!CleanUp
<1>2. UploadsTypes /\ Paid \in Nat /\ {"storage", "lostReply"} \subseteq Uploads!FaultKinds
  BY PaidIsCounted DEF UploadsInv, Uploads!FaultKinds
<1>3. \A q \in Payloads \ {p} : object'[q] = object[q]
  BY DEF Uploads!CleanUp, MyPayload, UploadsInv, UploadsTypes
<1>4. /\ Losses' \subseteq Losses \cup {p}
      /\ (Lost(p)' => Lost(p)) => Losses' \subseteq Losses
  BY <1>1, <1>3, IdleIsTyped, LossOfMine
<1>5. CASE object' = [object EXCEPT ![p] = Null] /\ UNCHANGED payloadFailed
  <2>1. object'[p] = Null
    BY <1>5 DEF UploadsInv, UploadsTypes
  <2>2. Lost(p)' => Lost(p)
    BY <1>1, <2>1 DEF Lost
  <2> QED BY <1>2, <1>4, <1>5, <2>2 DEF Paid
<1>6. CASE Uploads!Fail("storage") \/ Uploads!Fail("lostReply")
  <2>1. Paid' = Paid + 1
    BY <1>2, <1>6, WhatIsPaid
  <2> QED BY <1>4, <2>1
<1> QED BY <1>5, <1>6 DEF Uploads!CleanUp, MyPayload

LEMMA LossOfEdit ==
  ASSUME UploadsInv, NEW h \in Handlers, NEW p \in Payloads, p = MyPayload(h),
         \/ \E path \in Uploads!Paths \cup {Null}, config \in Names \cup {Null} :
               Uploads!WriteUpdate(h, path, config)
         \/ Uploads!WriteDelete(h)
         \/ Uploads!StatementFails(h)
  PROVE  Losses' \subseteq Losses /\ Paid' = Paid
<1>1. /\ payloadHandling[h].pc \in {"write", "delete"} /\ UNCHANGED object
      /\ payloadHandling' = [payloadHandling EXCEPT ![h] = Uploads!Idle]
  BY DEF Uploads!WriteUpdate, Uploads!WriteDelete, Uploads!StatementFails
<1>2. /\ payload[p].row # "absent" /\ payload[p] \in Uploads!PayloadRow
      /\ payload \in [Payloads -> Uploads!PayloadRow]
  BY <1>1, WhatIsKnown DEF HandlerKnows, UploadsInv, UploadsTypes
<1>3. /\ \A q \in Payloads \ {p} : payload'[q] = payload[q] /\ (q \in edited' <=> q \in edited)
      /\ payload'[p].row \in {payload[p].row, "deleted"}
      /\ edited \subseteq edited'
  <2>1. CASE \E path \in Uploads!Paths \cup {Null}, config \in Names \cup {Null} :
                Uploads!WriteUpdate(h, path, config)
    <3>1. PICK path, config : Uploads!WriteUpdate(h, path, config)
      BY <2>1
    <3>2. CASE Uploads!Live(p)
      <4>1. /\ payload' = [payload EXCEPT ![p].path = IF path = Null THEN @ ELSE path,
                                          ![p].config = IF config = Null THEN @ ELSE config]
            /\ edited' = IF path = Null /\ config = Null THEN edited ELSE edited \cup {p}
        BY <3>1, <3>2 DEF Uploads!WriteUpdate, MyPayload
      <4>2. payload' = [payload EXCEPT ![p] =
               [payload[p] EXCEPT !.path = IF path = Null THEN payload[p].path ELSE path,
                                  !.config = IF config = Null THEN payload[p].config ELSE config]]
        BY <1>2, <4>1 DEF Uploads!PayloadRow
      <4>3. payload'[p].row = payload[p].row
        BY <1>2, <4>2 DEF Uploads!PayloadRow
      <4> QED BY <1>2, <4>1, <4>2, <4>3
    <3>3. CASE ~Uploads!Live(p)
      BY <3>1, <3>3 DEF Uploads!WriteUpdate, MyPayload
    <3> QED BY <3>2, <3>3
  <2>2. CASE Uploads!WriteDelete(h)
    <3>1. UNCHANGED edited /\ payload' = IF Uploads!Live(p) THEN [payload EXCEPT ![p].row = "deleted"] ELSE payload
      BY <2>2 DEF Uploads!WriteDelete, MyPayload
    <3>2. payload' \in {[payload EXCEPT ![p] = [payload[p] EXCEPT !.row = "deleted"]], payload}
      BY <1>2, <3>1
    <3> QED BY <1>2, <3>1, <3>2 DEF Uploads!PayloadRow
  <2>3. CASE Uploads!StatementFails(h)
    BY <2>3 DEF Uploads!StatementFails
  <2> QED BY <2>1, <2>2, <2>3
<1>4. /\ (Lost(p)' => Lost(p)) => Losses' \subseteq Losses
      /\ payloadHandling'[h] = Uploads!Idle
      /\ \A k \in Handlers \ {h} :
            payloadHandling'[k] = payloadHandling[k] /\ MyPayload(k)' = MyPayload(k)
  <2>1. Uploads!Idle.payload \in {p, Null}
    BY IdleIsTyped
  <2>2. \A q \in Payloads \ {p} : /\ payload'[q] = payload[q] /\ object'[q] = object[q]
                                  /\ q \in edited' <=> q \in edited
    BY <1>1, <1>3
  <2>3. /\ payloadHandling'[h] = Uploads!Idle /\ MyPayload(h)' = Uploads!Idle.payload
        /\ \A k \in Handlers \ {h} :
              payloadHandling'[k] = payloadHandling[k] /\ MyPayload(k)' = MyPayload(k)
    BY <1>1, OthersAlike
  <2>4. (Lost(p)' => Lost(p)) => Losses' \subseteq Losses
    BY <2>1, <2>2, <2>3, LossIsMine
  <2> QED BY <2>3, <2>4
<1>5. \A k \in Handlers : payloadHandling'[k].pc = "cleanup" /\ MyPayload(k)' = p =>
         payloadHandling[k].pc = "cleanup" /\ MyPayload(k) = p
  BY <1>4, IdleIsTyped
<1>6. Lost(p)' => Lost(p)
  BY <1>1, <1>2, <1>3, <1>5 DEF Lost
<1>7. Paid' = Paid
  <2>1. UNCHANGED payloadFailed \/ Uploads!Fail("db")
    BY DEF Uploads!WriteUpdate, Uploads!WriteDelete, Uploads!StatementFails
  <2>2. UploadsTypes /\ "db" \in Uploads!FaultKinds
    BY DEF UploadsInv, Uploads!FaultKinds
  <2>3. CASE UNCHANGED payloadFailed
    BY <2>3 DEF Paid
  <2>4. CASE Uploads!Fail("db")
    BY <2>2, <2>4, WhatIsPaid
  <2> QED BY <2>1, <2>3, <2>4
<1> QED BY <1>4, <1>6, <1>7

LEMMA LossOfCrash ==
  ASSUME UploadsInv, NEW h \in Handlers, NEW p \in Payloads, p = MyPayload(h), Uploads!CrashApi(h)
  PROVE  Losses' \subseteq Losses \cup {p} /\ Paid' = Paid + 1
<1>1. /\ UNCHANGED <<payload, object, edited>> /\ Uploads!Fail("apiCrash")
      /\ payloadHandling' = [payloadHandling EXCEPT ![h] = Uploads!Idle]
  BY DEF Uploads!CrashApi
<1>2. UploadsTypes /\ "apiCrash" \in Uploads!FaultKinds
  BY DEF UploadsInv, Uploads!FaultKinds
<1>3. Paid' = Paid + 1
  BY <1>1, <1>2, WhatIsPaid
<1> QED BY <1>1, <1>3, IdleIsTyped, LossOfMine

LEMMA LossInvKept ==
  ASSUME UploadsInv, UploadsInv', LossInv, [Uploads!Next]_(Uploads!vars)
  PROVE  LossInv'
<1>1. UploadsTypes /\ UploadsTypes' /\ Paid \in Nat
  BY PaidIsCounted DEF UploadsInv
<1>2. ASSUME NEW b \in Builders, Uploads!BuilderStep(b) PROVE LossInv'
  <2>1. Losses' = Losses
    BY <1>2 DEF Uploads!BuilderStep, Uploads!LoadPayload, Uploads!Download, Uploads!Deliver,
                Losses, Lost, MyPayload
  <2>2. UNCHANGED payloadFailed \/ Uploads!Fail("storage")
    BY <1>2 DEF Uploads!BuilderStep, Uploads!LoadPayload, Uploads!Download, Uploads!Deliver
  <2>3. Paid' = Paid \/ Paid' = Paid + 1
    <3>1. CASE UNCHANGED payloadFailed
      BY <3>1 DEF Paid
    <3>2. CASE Uploads!Fail("storage")
      BY <1>1, <3>2, WhatIsPaid DEF Uploads!FaultKinds
    <3> QED BY <2>2, <3>1, <3>2
  <2> QED BY <1>1, <2>1, <2>3, LossFramed
<1>3. ASSUME NEW h \in Handlers, Uploads!HandlerStep(h) PROVE LossInv'
  <2>1. CASE payloadHandling[h].pc = "idle"
    <3>1. \E p \in Payloads :
             \/ \E a \in Archives, config \in Names : Uploads!CreatePayload(h, p, a, config)
             \/ \E next \in {"write", "delete"} : Uploads!FindPayload(h, p, next)
      BY <1>3, <2>1
      DEF Uploads!HandlerStep, Uploads!UploadPayload, Uploads!InsertPayload, Uploads!CleanUp,
          Uploads!WriteUpdate, Uploads!WriteDelete, Uploads!StatementFails, Uploads!CrashApi
    <3>2. Losses' \subseteq Losses /\ Paid' = Paid
      BY <3>1, LossOfBegin
    <3> QED BY <1>1, <3>2, LossFramed
  <2>2. CASE payloadHandling[h].pc # "idle"
    <3>1. PICK p \in Payloads : p = MyPayload(h)
      BY <2>2, WhatIsKnown
    <3>2. \/ Losses' \subseteq Losses /\ Paid' >= Paid
          \/ Losses' \subseteq Losses \cup {p} /\ Paid' = Paid + 1
      <4>1. \/ Uploads!UploadPayload(h) \/ Uploads!InsertPayload(h) \/ Uploads!CleanUp(h)
            \/ Uploads!CrashApi(h)
            \/ \/ \E path \in Uploads!Paths \cup {Null}, config \in Names \cup {Null} :
                     Uploads!WriteUpdate(h, path, config)
               \/ Uploads!WriteDelete(h)
               \/ Uploads!StatementFails(h)
        BY <1>3, <2>2 DEF Uploads!HandlerStep, Uploads!CreatePayload, Uploads!FindPayload
      <4>2. CASE Uploads!UploadPayload(h)
        BY <1>1, <3>1, <4>2, LossOfUpload
      <4>3. CASE Uploads!InsertPayload(h)
        BY <1>1, <3>1, <4>3, LossOfInsert
      <4>4. CASE Uploads!CleanUp(h)
        BY <1>1, <3>1, <4>4, LossOfCleanUp
      <4>5. CASE Uploads!CrashApi(h)
        BY <1>1, <3>1, <4>5, LossOfCrash
      <4>6. CASE \/ \E path \in Uploads!Paths \cup {Null}, config \in Names \cup {Null} :
                     Uploads!WriteUpdate(h, path, config)
                 \/ Uploads!WriteDelete(h)
                 \/ Uploads!StatementFails(h)
        <5>1. Losses' \subseteq Losses /\ Paid' = Paid
          BY <1>1, <3>1, <4>6, LossOfEdit
        <5> QED BY <1>1, <5>1
      <4> QED BY <4>1, <4>2, <4>3, <4>4, <4>5, <4>6
    <3> QED BY <1>1, <3>2, LossFramed
  <2> QED BY <2>1, <2>2
<1>4. CASE UNCHANGED Uploads!vars
  <2>1. Losses' = Losses /\ Paid' = Paid
    BY <1>4 DEF Uploads!vars, Losses, Lost, MyPayload, Paid
  <2> QED BY <1>1, <2>1, LossFramed
<1> QED BY <1>2, <1>3, <1>4 DEF Uploads!Next

LEMMA LossInit == Uploads!Init => LossInv
<1> SUFFICES ASSUME Uploads!Init PROVE LossInv
  OBVIOUS
<1>1. Losses = {}
  BY DEF Uploads!Init, Losses, Lost, Uploads!NoPayload
<1>2. Paid = 0
  BY DEF Uploads!Init, Paid, Uploads!FaultKinds
<1> QED BY <1>1, <1>2, FS_EmptySet DEF LossInv

\* The two stores agree, but for one payload per failure of the storage, reply
\* that was lost or crash (service/payload.go:99-115).
THEOREM EveryLossIsPaidFor == Uploads!Spec => []StoresAgree
<1>1. UploadsInv /\ LossInv => StoresAgree
  BY LossesAreCounted DEF UploadsInv, StoresAgree
<1>2. UploadsInv /\ LossInv /\ [Uploads!Next]_(Uploads!vars) => LossInv'
  BY UploadsInvKept, LossInvKept
<1> QED BY <1>1, <1>2, UploadsInit, UploadsInvKept, LossInit, PTL DEF Uploads!Spec

-----------------------------------------------------------------------------
(* Access: the calls and the rows they are about *)

\* What a call under way knows of its row r, when others have since written l:
\* a call on a row it has seen finds it or finds it deleted, a call that makes
\* one is the only one that knows its id.
CallKnows(c, r, l) ==
    /\ c.tenant \in Tenants /\ c.user \in Users /\ c.id \in Rows!Ids
    /\ c.op \in Rows!Operations
    /\ c.op # "delete" => c.value \in Values
    /\ c.pc = "insert" => c.op = "create"
    /\ c.pc = "load" => c.op = "update"
    /\ c.pc \in {"write", "read"} => c.op \in {"update", "set"}
    /\ c.pc = "delete" => c.op = "delete"
    /\ c.op # "create" => r.row # "absent"
    /\ c.op = "create" /\ c.pc # "answer" => r.row = "absent"
    /\ c.pc = "read" => r.row = "deleted" \/ r.value = c.value \/ r.value \in l
    /\ c.pc = "answer" =>
          /\ c.answer = "notFound" => r.row = "deleted"
          /\ c.answer = "done" /\ c.op = "delete" => r.row = "deleted"
          /\ c.answer \in Values => c.answer = c.value \/ c.answer \in l

RowsTypes ==
    /\ table \in [Tenants -> [Rows!Ids -> Rows!Row]]
    /\ call \in [Handlers -> Rows!Call]
    /\ later \in [Handlers -> SUBSET Values]
    /\ accessFailures \in 0..MaxFailures

RowsInv ==
    /\ RowsTypes
    /\ \A h \in Handlers : call[h].pc # "idle" => CallKnows(call[h], Rows!Mine(h), later[h])
    /\ \A h, k \in Handlers :
          /\ call[h].pc \in {"check", "insert"} /\ call[h].op = "create"
          /\ call[k].pc \in {"check", "insert"} /\ call[k].op = "create"
          /\ call[h].tenant = call[k].tenant /\ call[h].id = call[k].id
          => h = k

LEMMA RowsInit == Rows!Init => RowsInv
<1> SUFFICES ASSUME Rows!Init PROVE RowsInv
  OBVIOUS
<1>1. /\ Rows!Ids = Users \cup Systems \cup Sessions
      /\ \A v \in Values : [row |-> "live", value |-> v] \in Rows!Row
      /\ Rows!NoRow \in Rows!Row
  BY DEF Rows!Row, Rows!NoRow, Rows!Ids
<1>2. table \in [Tenants -> [Rows!Ids -> Rows!Row]]
  <2>1. ASSUME NEW t \in Tenants PROVE table[t] \in [Rows!Ids -> Rows!Row]
    <3>1. PICK v \in Values : table[t] = [i \in Rows!Ids |->
             IF i \in Sessions \cup {Root} THEN [row |-> "live", value |-> v] ELSE Rows!NoRow]
      BY DEF Rows!Init
    <3>2. \A i \in Rows!Ids : table[t][i] \in Rows!Row
      BY <1>1, <3>1
    <3> QED BY <3>1, <3>2
  <2>2. table = [t \in Tenants |-> table[t]]
    BY DEF Rows!Init
  <2> QED BY <2>1, <2>2
<1>3. Rows!NoCall \in Rows!Call /\ Rows!NoCall.pc = "idle"
  BY DEF Rows!NoCall, Rows!Call, Rows!Answers
<1>4. \A h \in Handlers : call[h] = Rows!NoCall
  BY DEF Rows!Init
<1>5. accessFailures \in 0..MaxFailures
  BY AccessAssumptions DEF Rows!Init, Rows!Assumptions
<1>6. RowsTypes
  BY <1>2, <1>3, <1>5 DEF Rows!Init, RowsTypes
<1> QED BY <1>3, <1>4, <1>6 DEF RowsInv

LEMMA RowsFails ==
  ASSUME RowsTypes, NEW k, Rows!Fail(k)
  PROVE  accessFailures' \in 0..MaxFailures
BY AccessAssumptions DEF RowsTypes, Rows!Fail, Rows!Assumptions

\* What a call of h may do to its row: make it, write it, delete it.
RowMoves(h, r) ==
    /\ table' = [table EXCEPT ![call[h].tenant][call[h].id] = r]
    /\ r \in Rows!Row
    /\ \/ call[h].pc = "insert" /\ r.row = "live" /\ UNCHANGED later
       \/ Rows!Mine(h).row = "live" /\ r.row = "deleted" /\ UNCHANGED later
       \/ Rows!Mine(h).row = "live" /\ r = Rows!NewRow(h) /\ call[h].pc = "write" /\ Rows!Written(h)

LEMMA RowAfter ==
  ASSUME RowsInv, NEW h \in Handlers, call[h].pc # "idle", NEW r, RowMoves(h, r)
  PROVE  /\ table' \in [Tenants -> [Rows!Ids -> Rows!Row]]
         /\ table'[call[h].tenant][call[h].id] = r
         /\ \A t \in Tenants, i \in Rows!Ids :
               t # call[h].tenant \/ i # call[h].id => table'[t][i] = table[t][i]
<1>1. call[h].tenant \in Tenants /\ call[h].id \in Rows!Ids
  BY DEF RowsInv, CallKnows
<1>2. table \in [Tenants -> [Rows!Ids -> Rows!Row]]
  BY DEF RowsInv, RowsTypes
<1> QED BY <1>1, <1>2 DEF RowMoves

\* A row that was deleted stays as it is.
LEMMA DeletedStays ==
  ASSUME RowsInv, NEW h \in Handlers, call[h].pc # "idle",
         UNCHANGED table \/ \E r : RowMoves(h, r),
         NEW t \in Tenants, NEW i \in Rows!Ids, table[t][i].row = "deleted"
  PROVE  table'[t][i] = table[t][i]
<1>1. CASE UNCHANGED table
  BY <1>1
<1>2. ASSUME NEW r, RowMoves(h, r) PROVE table'[t][i] = table[t][i]
  <2>1. CASE t # call[h].tenant \/ i # call[h].id
    BY <1>2, <2>1, RowAfter
  <2>2. CASE t = call[h].tenant /\ i = call[h].id
    <3>1. Rows!Mine(h).row = "deleted"
      BY <2>2 DEF Rows!Mine
    <3>2. call[h].pc = "insert" => Rows!Mine(h).row = "absent"
      BY DEF RowsInv, CallKnows
    <3> QED BY <1>2, <3>1, <3>2 DEF RowMoves
  <2> QED BY <2>1, <2>2
<1> QED BY <1>1, <1>2

\* What the others know stays true: only its own call makes a row, what is
\* written over another's value is noted, and what was deleted stays so.
LEMMA OthersKnow ==
  ASSUME RowsInv, NEW h \in Handlers, call[h].pc # "idle",
         NEW k \in Handlers, k # h, call[k].pc # "idle",
         \/ UNCHANGED table /\ later'[k] = later[k]
         \/ \E r : RowMoves(h, r)
  PROVE  CallKnows(call[k], table'[call[k].tenant][call[k].id], later'[k])
<1>1. CallKnows(call[k], Rows!Mine(k), later[k])
  BY DEF RowsInv
<1>2. CASE UNCHANGED table /\ later'[k] = later[k]
  BY <1>1, <1>2 DEF Rows!Mine
<1>3. ASSUME NEW r, RowMoves(h, r)
      PROVE  CallKnows(call[k], table'[call[k].tenant][call[k].id], later'[k])
  <2>1. call[k].tenant \in Tenants /\ call[k].id \in Rows!Ids
    BY <1>1 DEF CallKnows
  <2>2. later'[k] = later[k] \/ later'[k] = later[k] \cup {call[h].value}
    BY <1>3 DEF RowMoves, Rows!Written, RowsInv, RowsTypes
  <2>3. CASE call[k].tenant # call[h].tenant \/ call[k].id # call[h].id
    <3>1. table'[call[k].tenant][call[k].id] = Rows!Mine(k)
      BY <1>3, <2>1, <2>3, RowAfter DEF Rows!Mine
    <3> QED BY <1>1, <2>2, <3>1 DEF CallKnows
  <2>4. CASE call[k].tenant = call[h].tenant /\ call[k].id = call[h].id
    <3>1. Rows!Mine(k) = Rows!Mine(h) /\ table'[call[k].tenant][call[k].id] = r
      BY <1>3, <2>4, RowAfter DEF Rows!Mine
    <3>2. CASE call[h].pc = "insert" /\ r.row = "live" /\ UNCHANGED later
      <4>1. Rows!Mine(k).row = "absent" /\ call[h].op = "create"
        BY <3>1, <3>2 DEF RowsInv, CallKnows
      <4>2. call[k].op = "create"
        BY <1>1, <4>1 DEF CallKnows
      <4>3. call[k].pc = "answer"
        <5>1. call[k].pc \in {"idle", "check", "insert", "load", "write", "read", "delete", "answer"}
          BY DEF RowsInv, RowsTypes, Rows!Call
        <5>2. call[k].pc \notin {"check", "insert"}
          BY <2>4, <3>2, <4>1, <4>2 DEF RowsInv
        <5> QED BY <1>1, <4>2, <5>1, <5>2 DEF CallKnows
      <4> QED BY <1>1, <2>2, <3>1, <3>2, <4>1, <4>2, <4>3 DEF CallKnows
    <3>3. CASE Rows!Mine(h).row = "live" /\ r.row = "deleted" /\ UNCHANGED later
      BY <1>1, <3>1, <3>3 DEF CallKnows
    <3>4. CASE Rows!Mine(h).row = "live" /\ r = Rows!NewRow(h) /\ Rows!Written(h)
      <4>1. r.row = "live" /\ r.value = call[h].value
        BY <3>4 DEF Rows!NewRow
      <4>2. later'[k] = later[k] \cup {call[h].value}
        BY <2>4, <3>4 DEF Rows!Written
      <4> QED BY <1>1, <3>1, <3>4, <4>1, <4>2 DEF CallKnows
    <3> QED BY <1>3, <3>2, <3>3, <3>4 DEF RowMoves
  <2> QED BY <2>3, <2>4
<1> QED BY <1>2, <1>3

\* A step of one call keeps the invariant if the call knows enough after it.
LEMMA RowsFramed ==
  ASSUME RowsInv, NEW h \in Handlers, call[h].pc # "idle",
         \/ /\ UNCHANGED table
            /\ later' \in [Handlers -> SUBSET Values]
            /\ \A k \in Handlers \ {h} : later'[k] = later[k]
         \/ \E r : RowMoves(h, r),
         NEW c \in Rows!Call, call' = [call EXCEPT ![h] = c],
         c.pc # "check",
         c.pc = "insert" => /\ call[h].pc = "check" /\ call[h].op = "create"
                            /\ c.tenant = call[h].tenant /\ c.id = call[h].id,
         c.pc # "idle" => CallKnows(c, table'[c.tenant][c.id], later'[h]),
         accessFailures' \in 0..MaxFailures
  PROVE  RowsInv'
<1>1. call \in [Handlers -> Rows!Call] /\ later \in [Handlers -> SUBSET Values]
  BY DEF RowsInv, RowsTypes
<1>2. call' \in [Handlers -> Rows!Call] /\ call'[h] = c /\ \A k \in Handlers \ {h} : call'[k] = call[k]
  BY <1>1
<1>3. table' \in [Tenants -> [Rows!Ids -> Rows!Row]]
  BY RowAfter DEF RowsInv, RowsTypes
<1>4. later' \in [Handlers -> SUBSET Values]
  <2>1. ASSUME NEW r, RowMoves(h, r) PROVE later' \in [Handlers -> SUBSET Values]
    <3>1. CASE UNCHANGED later
      BY <1>1, <3>1
    <3>2. CASE call[h].pc = "write" /\ Rows!Written(h)
      <4>1. call[h].value \in Values
        BY <3>2 DEF RowsInv, CallKnows
      <4> QED BY <1>1, <3>2, <4>1 DEF Rows!Written
    <3> QED BY <2>1, <3>1, <3>2 DEF RowMoves
  <2> QED BY <2>1
<1>5. RowsTypes'
  BY <1>2, <1>3, <1>4 DEF RowsTypes
<1>6. ASSUME NEW k \in Handlers, call'[k].pc # "idle"
      PROVE  CallKnows(call'[k], Rows!Mine(k)', later'[k])
  <2>1. CASE k = h
    BY <1>2, <1>6, <2>1 DEF Rows!Mine
  <2>2. CASE k # h
    <3>1. call'[k] = call[k]
      BY <1>2, <2>2
    <3>2. CallKnows(call[k], table'[call[k].tenant][call[k].id], later'[k])
      BY <1>6, <2>2, <3>1, OthersKnow
    <3> QED BY <3>1, <3>2 DEF Rows!Mine
  <2> QED BY <2>1, <2>2
<1>7. ASSUME NEW j \in Handlers, NEW k \in Handlers,
             call'[j].pc \in {"check", "insert"}, call'[j].op = "create",
             call'[k].pc \in {"check", "insert"}, call'[k].op = "create",
             call'[j].tenant = call'[k].tenant, call'[j].id = call'[k].id
      PROVE  j = k
  <2>1. \A g \in Handlers : call'[g].pc \in {"check", "insert"} /\ call'[g].op = "create" =>
           /\ call[g].pc \in {"check", "insert"} /\ call[g].op = "create"
           /\ call'[g].tenant = call[g].tenant /\ call'[g].id = call[g].id
    BY <1>2
  <2> QED BY <1>7, <2>1 DEF RowsInv
<1> QED BY <1>5, <1>6, <1>7 DEF RowsInv

\* A call that goes on, and one that answers.
LEMMA RowsGoOn ==
  ASSUME RowsInv, NEW h \in Handlers, call[h].pc # "idle",
         NEW pc_ \in {"insert", "load", "write", "read", "delete"}, Rows!GoTo(h, pc_)
  PROVE  \E c \in Rows!Call :
            /\ call' = [call EXCEPT ![h] = c]
            /\ c.pc = pc_ /\ c.op = call[h].op /\ c.tenant = call[h].tenant
            /\ c.user = call[h].user /\ c.id = call[h].id /\ c.value = call[h].value
<1>1. call[h] \in Rows!Call /\ call \in [Handlers -> Rows!Call]
  BY DEF RowsInv, RowsTypes
<1>2. [call[h] EXCEPT !.pc = pc_] \in Rows!Call
  BY <1>1 DEF Rows!Call
<1>3. call' = [call EXCEPT ![h] = [call[h] EXCEPT !.pc = pc_]]
  BY <1>1 DEF Rows!GoTo
<1> WITNESS [call[h] EXCEPT !.pc = pc_] \in Rows!Call
<1> QED BY <1>1, <1>3 DEF Rows!Call

LEMMA RowsAnswer ==
  ASSUME RowsInv, NEW h \in Handlers, call[h].pc # "idle",
         NEW a \in Rows!Answers, Rows!Answer(h, a)
  PROVE  \E c \in Rows!Call :
            /\ call' = [call EXCEPT ![h] = c]
            /\ c.pc = "answer" /\ c.answer = a /\ c.op = call[h].op /\ c.tenant = call[h].tenant
            /\ c.user = call[h].user /\ c.id = call[h].id /\ c.value = call[h].value
<1>1. call[h] \in Rows!Call /\ call \in [Handlers -> Rows!Call]
  BY DEF RowsInv, RowsTypes
<1>2. [call[h] EXCEPT !.pc = "answer", !.answer = a] \in Rows!Call
  BY <1>1 DEF Rows!Call
<1>3. call' = [call EXCEPT ![h] = [call[h] EXCEPT !.pc = "answer", !.answer = a]]
  BY <1>1 DEF Rows!Answer
<1> WITNESS [call[h] EXCEPT !.pc = "answer", !.answer = a] \in Rows!Call
<1> QED BY <1>1, <1>3 DEF Rows!Call

LEMMA CallBegins ==
  ASSUME RowsInv, NEW h \in Handlers, NEW op \in Rows!Operations, NEW t \in Tenants,
         NEW u \in Users, NEW i \in Rows!Ids, NEW v \in Values \cup {Null},
         op # "delete" => v \in Values,
         op = "create" => Rows!New(t, i),
         op # "create" => Rows!Seen(t, i),
         Rows!BeginCall(h, op, t, u, i, v)
  PROVE  RowsInv'
<1> DEFINE c == [pc |-> "check", op |-> op, tenant |-> t, user |-> u, id |-> i,
                 value |-> v, answer |-> Null]
<1>1. /\ call \in [Handlers -> Rows!Call] /\ later \in [Handlers -> SUBSET Values]
      /\ call[h].pc = "idle" /\ UNCHANGED table
      /\ accessFailures \in 0..MaxFailures /\ UNCHANGED accessFailures
      /\ table \in [Tenants -> [Rows!Ids -> Rows!Row]]
  BY DEF RowsInv, RowsTypes, Rows!BeginCall
<1>2. c \in Rows!Call
  BY DEF Rows!Call, Rows!Answers
<1>3. /\ c.pc = "check" /\ c.op = op /\ c.tenant = t /\ c.user = u /\ c.id = i /\ c.value = v
      /\ call' = [call EXCEPT ![h] = c] /\ later' = [later EXCEPT ![h] = {}]
  BY DEF Rows!BeginCall
<1> HIDE DEF c
<1>4. /\ call'[h] = c /\ \A k \in Handlers \ {h} : call'[k] = call[k] /\ later'[k] = later[k]
      /\ call' \in [Handlers -> Rows!Call] /\ later' \in [Handlers -> SUBSET Values]
  BY <1>1, <1>2, <1>3
<1>5. RowsTypes'
  BY <1>1, <1>4 DEF RowsTypes
<1>6. CallKnows(c, table'[t][i], later'[h])
  BY <1>1, <1>3 DEF CallKnows, Rows!New, Rows!Seen
<1>7. ASSUME NEW k \in Handlers, call'[k].pc # "idle"
      PROVE  CallKnows(call'[k], Rows!Mine(k)', later'[k])
  <2>1. CASE k = h
    BY <1>3, <1>4, <1>6, <2>1 DEF Rows!Mine
  <2>2. CASE k # h
    <3>1. call'[k] = call[k] /\ later'[k] = later[k]
      BY <1>4, <2>2
    <3>2. Rows!Mine(k)' = Rows!Mine(k)
      BY <1>1, <3>1 DEF Rows!Mine
    <3> QED BY <1>7, <3>1, <3>2 DEF RowsInv
  <2> QED BY <2>1, <2>2
<1>8. ASSUME NEW j \in Handlers, NEW k \in Handlers,
             call'[j].pc \in {"check", "insert"}, call'[j].op = "create",
             call'[k].pc \in {"check", "insert"}, call'[k].op = "create",
             call'[j].tenant = call'[k].tenant, call'[j].id = call'[k].id
      PROVE  j = k
  <2>1. op = "create" => \A g \in Handlers : call[g].id # i
    BY DEF Rows!New
  <2>2. CASE j = h /\ k # h
    BY <1>3, <1>4, <1>8, <2>1, <2>2
  <2>3. CASE k = h /\ j # h
    BY <1>3, <1>4, <1>8, <2>1, <2>3
  <2>4. CASE j # h /\ k # h
    BY <1>4, <1>8, <2>4 DEF RowsInv
  <2> QED BY <2>2, <2>3, <2>4
<1> QED BY <1>5, <1>7, <1>8 DEF RowsInv

\* The answers of the database that are no values.
LEMMA AnswersAreNoValues ==
  "denied" \notin Values /\ "notFound" \notin Values /\ "error" \notin Values /\ "done" \notin Values
BY AccessAssumptions DEF Rows!Assumptions

\* An answer with which the row is left alone, and which is no claim about it.
LEMMA RefusalsAreTrue ==
  ASSUME RowsInv, NEW h \in Handlers, call[h].pc # "idle", UNCHANGED <<table, later>>,
         NEW a \in {"denied", "error", "notFound"}, Rows!Answer(h, a),
         a = "notFound" => Rows!Mine(h).row # "live" /\ call[h].op # "create",
         accessFailures' \in 0..MaxFailures
  PROVE  RowsInv'
<1>1. PICK c \in Rows!Call :
         /\ call' = [call EXCEPT ![h] = c]
         /\ c.pc = "answer" /\ c.answer = a /\ c.op = call[h].op /\ c.tenant = call[h].tenant
         /\ c.user = call[h].user /\ c.id = call[h].id /\ c.value = call[h].value
  BY RowsAnswer DEF Rows!Answers
<1>2. CallKnows(call[h], Rows!Mine(h), later[h])
  BY DEF RowsInv
<1>3. Rows!Mine(h).row \in {"absent", "live", "deleted"}
  BY <1>2 DEF RowsInv, RowsTypes, CallKnows, Rows!Mine, Rows!Row
<1>4. CallKnows(c, table'[c.tenant][c.id], later'[h])
  BY <1>1, <1>2, <1>3, AnswersAreNoValues DEF CallKnows, Rows!Mine
<1>5. later' \in [Handlers -> SUBSET Values]
  BY DEF RowsInv, RowsTypes
<1> QED BY <1>1, <1>4, <1>5, RowsFramed

LEMMA CallEnds ==
  ASSUME RowsInv, NEW h \in Handlers, call[h].pc # "idle", UNCHANGED table,
         call' = [call EXCEPT ![h] = Rows!NoCall], later' = [later EXCEPT ![h] = {}],
         accessFailures' \in 0..MaxFailures
  PROVE  RowsInv'
<1>1. Rows!NoCall \in Rows!Call /\ Rows!NoCall.pc = "idle"
  BY DEF Rows!NoCall, Rows!Call, Rows!Answers
<1>2. later \in [Handlers -> SUBSET Values]
  BY DEF RowsInv, RowsTypes
<1>3. /\ later' \in [Handlers -> SUBSET Values]
      /\ \A k \in Handlers \ {h} : later'[k] = later[k]
  BY <1>2
<1> QED BY <1>1, <1>3, RowsFramed

LEMMA ChecksKeep ==
  ASSUME RowsInv, NEW h \in Handlers, Rows!CheckUser(h)
  PROVE  RowsInv'
<1>1. call[h].pc = "check" /\ UNCHANGED <<table, later>>
  BY DEF Rows!CheckUser
<1>2. accessFailures' \in 0..MaxFailures
  BY RowsFails DEF Rows!CheckUser, RowsInv, RowsTypes
<1>3. CASE Rows!GoTo(h, Rows!First(call[h].op))
  <2>1. CallKnows(call[h], Rows!Mine(h), later[h])
    BY <1>1 DEF RowsInv
  <2>2. /\ Rows!First(call[h].op) \in {"insert", "load", "write", "delete"}
        /\ Rows!First(call[h].op) = "insert" <=> call[h].op = "create"
        /\ Rows!First(call[h].op) = "load" <=> call[h].op = "update"
        /\ Rows!First(call[h].op) = "write" <=> call[h].op = "set"
        /\ Rows!First(call[h].op) = "delete" <=> call[h].op = "delete"
    BY <2>1 DEF CallKnows, Rows!First, Rows!Operations
  <2>3. PICK c \in Rows!Call :
           /\ call' = [call EXCEPT ![h] = c]
           /\ c.pc = Rows!First(call[h].op) /\ c.op = call[h].op /\ c.tenant = call[h].tenant
           /\ c.user = call[h].user /\ c.id = call[h].id /\ c.value = call[h].value
    BY <1>1, <1>3, <2>2, RowsGoOn
  <2>4. CallKnows(c, table'[c.tenant][c.id], later'[h])
    BY <1>1, <2>1, <2>2, <2>3 DEF CallKnows, Rows!Mine
  <2>5. later' \in [Handlers -> SUBSET Values]
    BY <1>1 DEF RowsInv, RowsTypes
  <2> QED BY <1>1, <1>2, <2>2, <2>3, <2>4, <2>5, RowsFramed
<1>4. CASE Rows!Answer(h, "denied") \/ Rows!Answer(h, "error")
  BY <1>1, <1>2, <1>4, RefusalsAreTrue
<1> QED BY <1>3, <1>4 DEF Rows!CheckUser

\* A row that is made, deleted or written, and the answer or the next statement.
LEMMA RowMovesKeep ==
  ASSUME RowsInv, NEW h \in Handlers, call[h].pc # "idle", NEW r, RowMoves(h, r),
         NEW a \in {"done", "error", "read"},
         IF a = "read" THEN call[h].pc = "write" /\ Rows!GoTo(h, "read") ELSE Rows!Answer(h, a),
         a = "done" => call[h].pc \in {"insert", "delete"},
         call[h].pc = "delete" => r.row = "deleted",
         accessFailures' \in 0..MaxFailures
  PROVE  RowsInv'
<1>1. CallKnows(call[h], Rows!Mine(h), later[h])
  BY DEF RowsInv
<1>2. table'[call[h].tenant][call[h].id] = r
  BY RowAfter
<1>3. CASE a # "read"
  <2>1. PICK c \in Rows!Call :
           /\ call' = [call EXCEPT ![h] = c]
           /\ c.pc = "answer" /\ c.answer = a /\ c.op = call[h].op /\ c.tenant = call[h].tenant
           /\ c.user = call[h].user /\ c.id = call[h].id /\ c.value = call[h].value
    BY <1>3, RowsAnswer DEF Rows!Answers
  <2>2. r.row # "absent"
    BY DEF RowMoves, Rows!NewRow
  <2>3. CallKnows(c, table'[c.tenant][c.id], later'[h])
    BY <1>1, <1>2, <1>3, <2>1, <2>2, AnswersAreNoValues DEF CallKnows
  <2> QED BY <2>1, <2>3, RowsFramed
<1>4. CASE a = "read"
  <2>1. PICK c \in Rows!Call :
           /\ call' = [call EXCEPT ![h] = c]
           /\ c.pc = "read" /\ c.op = call[h].op /\ c.tenant = call[h].tenant
           /\ c.user = call[h].user /\ c.id = call[h].id /\ c.value = call[h].value
    BY <1>4, RowsGoOn
  <2>2. r.row = "deleted" \/ (r.row = "live" /\ r.value = call[h].value)
    BY <1>4 DEF RowMoves, Rows!NewRow
  <2>3. CallKnows(c, table'[c.tenant][c.id], later'[h])
    BY <1>1, <1>2, <1>4, <2>1, <2>2 DEF CallKnows
  <2> QED BY <2>1, <2>3, RowsFramed
<1> QED BY <1>3, <1>4

LEMMA InsertsKeep ==
  ASSUME RowsInv, NEW h \in Handlers, Rows!InsertRow(h)
  PROVE  RowsInv' /\ (UNCHANGED table \/ \E r : RowMoves(h, r))
<1>1. call[h].pc = "insert" /\ UNCHANGED later
  BY DEF Rows!InsertRow
<1>2. accessFailures' \in 0..MaxFailures
  BY RowsFails DEF Rows!InsertRow, RowsInv, RowsTypes
<1>3. Rows!NewRow(h) \in Rows!Row /\ Rows!NewRow(h).row = "live"
  BY <1>1 DEF RowsInv, RowsTypes, Rows!Call, Rows!NewRow, Rows!Row
<1>4. CASE Rows!PutRow(h, Rows!NewRow(h)) /\ (Rows!Answer(h, "done") \/ Rows!Answer(h, "error"))
  <2>1. RowMoves(h, Rows!NewRow(h))
    BY <1>1, <1>3, <1>4 DEF RowMoves, Rows!PutRow
  <2> QED BY <1>1, <1>2, <1>4, <2>1, RowMovesKeep
<1>5. CASE UNCHANGED table /\ Rows!Answer(h, "error")
  BY <1>1, <1>2, <1>5, RefusalsAreTrue
<1> QED BY <1>4, <1>5 DEF Rows!InsertRow

LEMMA LoadsKeep ==
  ASSUME RowsInv, NEW h \in Handlers, Rows!LoadRow(h)
  PROVE  RowsInv'
<1>1. call[h].pc = "load" /\ UNCHANGED <<table, later>>
  BY DEF Rows!LoadRow
<1>2. accessFailures' \in 0..MaxFailures
  BY RowsFails DEF Rows!LoadRow, RowsInv, RowsTypes
<1>3. CallKnows(call[h], Rows!Mine(h), later[h])
  BY <1>1 DEF RowsInv
<1>4. CASE Rows!GoTo(h, "write")
  <2>1. PICK c \in Rows!Call :
           /\ call' = [call EXCEPT ![h] = c]
           /\ c.pc = "write" /\ c.op = call[h].op /\ c.tenant = call[h].tenant
           /\ c.user = call[h].user /\ c.id = call[h].id /\ c.value = call[h].value
    BY <1>1, <1>4, RowsGoOn
  <2>2. CallKnows(c, table'[c.tenant][c.id], later'[h])
    BY <1>1, <1>3, <2>1 DEF CallKnows, Rows!Mine
  <2>3. later' \in [Handlers -> SUBSET Values]
    BY <1>1 DEF RowsInv, RowsTypes
  <2> QED BY <1>1, <1>2, <2>1, <2>2, <2>3, RowsFramed
<1>5. CASE \/ Rows!Mine(h).row # "live" /\ Rows!Answer(h, "notFound")
           \/ Rows!Answer(h, "error")
  <2>1. call[h].op # "create"
    BY <1>1, <1>3 DEF CallKnows
  <2> QED BY <1>1, <1>2, <1>5, <2>1, RefusalsAreTrue
<1> QED BY <1>4, <1>5 DEF Rows!LoadRow

LEMMA WritesKeep ==
  ASSUME RowsInv, NEW h \in Handlers, Rows!WriteRow(h)
  PROVE  RowsInv' /\ (UNCHANGED table \/ \E r : RowMoves(h, r))
<1>1. call[h].pc = "write"
  BY DEF Rows!WriteRow
<1>2. accessFailures' \in 0..MaxFailures
  BY RowsFails DEF Rows!WriteRow, RowsInv, RowsTypes
<1>3. CallKnows(call[h], Rows!Mine(h), later[h])
  BY <1>1 DEF RowsInv
<1>4. Rows!NewRow(h) \in Rows!Row /\ Rows!NewRow(h).row = "live"
  BY <1>1 DEF RowsInv, RowsTypes, Rows!Call, Rows!NewRow, Rows!Row
<1>5. CASE /\ Rows!Mine(h).row = "live" /\ Rows!PutRow(h, Rows!NewRow(h)) /\ Rows!Written(h)
           /\ Rows!GoTo(h, "read") \/ Rows!Answer(h, "error")
  <2>1. RowMoves(h, Rows!NewRow(h))
    BY <1>1, <1>4, <1>5 DEF RowMoves, Rows!PutRow
  <2> QED BY <1>1, <1>2, <1>5, <2>1, RowMovesKeep
<1>6. CASE /\ UNCHANGED <<table, later>>
           /\ \/ Rows!Mine(h).row # "live" /\ Rows!Answer(h, "notFound")
              \/ Rows!Answer(h, "error")
  <2>1. call[h].op # "create"
    BY <1>1, <1>3 DEF CallKnows
  <2> QED BY <1>1, <1>2, <1>6, <2>1, RefusalsAreTrue
<1> QED BY <1>5, <1>6 DEF Rows!WriteRow

LEMMA ReadsKeep ==
  ASSUME RowsInv, NEW h \in Handlers, Rows!ReadRow(h)
  PROVE  RowsInv'
<1>1. call[h].pc = "read" /\ UNCHANGED <<table, later>>
  BY DEF Rows!ReadRow
<1>2. accessFailures' \in 0..MaxFailures
  BY RowsFails DEF Rows!ReadRow, RowsInv, RowsTypes
<1>3. CallKnows(call[h], Rows!Mine(h), later[h])
  BY <1>1 DEF RowsInv
<1>4. CASE Rows!Mine(h).row = "live" /\ Rows!Answer(h, Rows!Mine(h).value)
  <2>1. Rows!Mine(h).value \in Values
    BY <1>1, <1>3, <1>4 DEF RowsInv, RowsTypes, CallKnows
  <2>2. PICK c \in Rows!Call :
           /\ call' = [call EXCEPT ![h] = c]
           /\ c.pc = "answer" /\ c.answer = Rows!Mine(h).value /\ c.op = call[h].op
           /\ c.tenant = call[h].tenant /\ c.user = call[h].user /\ c.id = call[h].id
           /\ c.value = call[h].value
    BY <1>1, <1>4, <2>1, RowsAnswer DEF Rows!Answers
  <2>3. c.answer # "notFound" /\ c.answer # "done"
    BY <2>1, <2>2, AnswersAreNoValues
  <2>4. CallKnows(c, table'[c.tenant][c.id], later'[h])
    BY <1>1, <1>3, <1>4, <2>2, <2>3 DEF CallKnows, Rows!Mine
  <2>5. later' \in [Handlers -> SUBSET Values]
    BY <1>1 DEF RowsInv, RowsTypes
  <2> QED BY <1>1, <1>2, <2>2, <2>4, <2>5, RowsFramed
<1>5. CASE Rows!Answer(h, "error")
  BY <1>1, <1>2, <1>5, RefusalsAreTrue
<1> QED BY <1>4, <1>5 DEF Rows!ReadRow

LEMMA DeletesKeep ==
  ASSUME RowsInv, NEW h \in Handlers, Rows!DeleteRow(h)
  PROVE  RowsInv' /\ (UNCHANGED table \/ \E r : RowMoves(h, r))
<1>1. call[h].pc = "delete" /\ UNCHANGED later
  BY DEF Rows!DeleteRow
<1>2. accessFailures' \in 0..MaxFailures
  BY RowsFails DEF Rows!DeleteRow, RowsInv, RowsTypes
<1>3. CallKnows(call[h], Rows!Mine(h), later[h])
  BY <1>1 DEF RowsInv
<1> DEFINE gone == [Rows!Mine(h) EXCEPT !.row = "deleted"]
<1>4. gone \in Rows!Row /\ gone.row = "deleted"
  <2>1. Rows!Mine(h) \in Rows!Row
    BY <1>3 DEF RowsInv, RowsTypes, CallKnows, Rows!Mine
  <2> QED BY <2>1 DEF Rows!Row
<1>5. CASE /\ Rows!Mine(h).row = "live" /\ Rows!PutRow(h, gone)
           /\ Rows!Answer(h, "done") \/ Rows!Answer(h, "error")
  <2>1. RowMoves(h, gone)
    BY <1>1, <1>4, <1>5 DEF RowMoves, Rows!PutRow
  <2> QED BY <1>1, <1>2, <1>4, <1>5, <2>1, RowMovesKeep
<1>6. CASE /\ UNCHANGED table
           /\ \/ Rows!Mine(h).row # "live" /\ Rows!Answer(h, "notFound")
              \/ Rows!Answer(h, "error")
  <2>1. call[h].op # "create"
    BY <1>1, <1>3 DEF CallKnows
  <2> QED BY <1>1, <1>2, <1>6, <2>1, RefusalsAreTrue
<1> QED BY <1>5, <1>6 DEF Rows!DeleteRow

\* A call of one of the services begins.
BeginsCall ==
    \E h \in Handlers, t \in Tenants, u \in Users, i \in Rows!Ids :
       \/ \E v \in Values :
             \/ Rows!CreateUser(h, t, u, i, v)
             \/ Rows!UpdateUser(h, t, u, i, v)
             \/ Rows!CreateSystem(h, t, u, i, v)
             \/ Rows!UpdateSystem(h, t, u, i, v)
       \/ Rows!DeleteUser(h, t, u, i)
       \/ Rows!DeleteSystem(h, t, u, i)
       \/ Rows!StartSession(h, t, u, i)
       \/ Rows!StopSession(h, t, u, i)

LEMMA BeginsKeep ==
  ASSUME RowsInv, BeginsCall
  PROVE  RowsInv' /\ UNCHANGED table
<1>1. PICK h \in Handlers, t \in Tenants, u \in Users, i \in Rows!Ids,
           op \in Rows!Operations, v \in Values \cup {Null} :
         /\ op # "delete" => v \in Values
         /\ op = "create" => Rows!New(t, i)
         /\ op # "create" => Rows!Seen(t, i)
         /\ Rows!BeginCall(h, op, t, u, i, v)
  BY AccessAssumptions
  DEF BeginsCall, Rows!Operations, Rows!Assumptions, Rows!CreateUser, Rows!UpdateUser, Rows!DeleteUser,
      Rows!CreateSystem, Rows!UpdateSystem, Rows!DeleteSystem, Rows!StartSession, Rows!StopSession
<1>2. RowsInv'
  BY <1>1, CallBegins
<1> QED BY <1>1, <1>2 DEF Rows!BeginCall

\* Every step keeps the invariant, and moves no row that was deleted.
LEMMA RowsKeep ==
  ASSUME RowsInv, [Rows!Next]_(Rows!vars)
  PROVE  /\ RowsInv'
         /\ \A t \in Tenants, i \in Rows!Ids :
               table[t][i].row = "deleted" => table'[t][i] = table[t][i]
<1>1. CASE BeginsCall
  BY <1>1, BeginsKeep
<1>2. ASSUME NEW h \in Handlers, Rows!CheckUser(h) PROVE RowsInv' /\ UNCHANGED table
  BY <1>2, ChecksKeep DEF Rows!CheckUser
<1>3. ASSUME NEW h \in Handlers, Rows!InsertRow(h)
      PROVE  RowsInv' /\ (UNCHANGED table \/ \E r : RowMoves(h, r)) /\ call[h].pc # "idle"
  BY <1>3, InsertsKeep DEF Rows!InsertRow
<1>4. ASSUME NEW h \in Handlers, Rows!LoadRow(h) PROVE RowsInv' /\ UNCHANGED table
  BY <1>4, LoadsKeep DEF Rows!LoadRow
<1>5. ASSUME NEW h \in Handlers, Rows!WriteRow(h)
      PROVE  RowsInv' /\ (UNCHANGED table \/ \E r : RowMoves(h, r)) /\ call[h].pc # "idle"
  BY <1>5, WritesKeep DEF Rows!WriteRow
<1>6. ASSUME NEW h \in Handlers, Rows!ReadRow(h) PROVE RowsInv' /\ UNCHANGED table
  BY <1>6, ReadsKeep DEF Rows!ReadRow
<1>7. ASSUME NEW h \in Handlers, Rows!DeleteRow(h)
      PROVE  RowsInv' /\ (UNCHANGED table \/ \E r : RowMoves(h, r)) /\ call[h].pc # "idle"
  BY <1>7, DeletesKeep DEF Rows!DeleteRow
<1>8. ASSUME NEW h \in Handlers, Rows!ReturnCall(h) \/ Rows!CrashApi(h)
      PROVE  RowsInv' /\ UNCHANGED table
  <2>1. accessFailures' \in 0..MaxFailures
    BY <1>8, RowsFails DEF Rows!ReturnCall, Rows!CrashApi, RowsInv, RowsTypes
  <2>2. /\ call[h].pc # "idle" /\ UNCHANGED table
        /\ call' = [call EXCEPT ![h] = Rows!NoCall] /\ later' = [later EXCEPT ![h] = {}]
    BY <1>8 DEF Rows!ReturnCall, Rows!CrashApi
  <2> QED BY <2>1, <2>2, CallEnds
<1>9. CASE UNCHANGED Rows!vars
  BY <1>9 DEF Rows!vars, RowsInv, RowsTypes, Rows!Mine
<1>10. CASE Rows!Next
  <2>1. \/ BeginsCall
        \/ \E h \in Handlers :
              \/ Rows!CheckUser(h) \/ Rows!InsertRow(h) \/ Rows!LoadRow(h) \/ Rows!WriteRow(h)
              \/ Rows!ReadRow(h) \/ Rows!DeleteRow(h) \/ Rows!ReturnCall(h) \/ Rows!CrashApi(h)
    BY <1>10 DEF Rows!Next, BeginsCall
  <2> QED BY <1>1, <1>2, <1>3, <1>4, <1>5, <1>6, <1>7, <1>8, <2>1, DeletedStays
<1> QED BY <1>9, <1>10 DEF Rows!vars

\* "Not found" and the success of a delete are answered only for a row that is
\* gone, and the value an update answers with is its own or a later one
\* (service/user.go:86-94, session.go:96-114).
THEOREM EveryAnswerIsTrue == Rows!Spec => []AnswersAreTrue
<1>1. RowsInv => AnswersAreTrue
  BY DEF RowsInv, CallKnows, AnswersAreTrue, Rows!AnswersAreTrue
<1> QED BY <1>1, RowsInit, RowsKeep, PTL DEF Rows!Spec

\* A deleted row is neither brought back nor written by an update that found it
\* before (service/user.go:74-87, session.go:96-107).
THEOREM DeletedRowsStayAsTheyAre == Rows!Spec => DeletedRowsAreLeftAlone
<1>1. RowsInv /\ [Rows!Next]_(Rows!vars) =>
         [\A t \in Tenants, i \in Rows!Ids :
             table[t][i].row = "deleted" => table'[t][i] = table[t][i]]_(Rows!vars)
  BY RowsKeep
<1> QED BY <1>1, RowsInit, RowsKeep, PTL
        DEF Rows!Spec, DeletedRowsAreLeftAlone, Rows!DeletedRowsAreLeftAlone

-----------------------------------------------------------------------------
(* Listing: the pages *)

LEMMA PagesCount == ASSUME NEW S PROVE Pages!Cardinality(S) = Cardinality(S)
BY DEF Pages!Cardinality, Cardinality

LEMMA LeastOf ==
  ASSUME NEW S \in SUBSET Nat, S # {}
  PROVE  \E x \in S : \A y \in S : x <= y
<1>1. PICK x \in S : \A y \in S : ~ (<<y, x>> \in OpToRel(<, Nat))
  BY NatLessThanWellFounded, WFMin, Zenon
<1>2. \A y \in S : ~ (y < x)
  BY <1>1 DEF OpToRel
<1> QED BY <1>2

Newer(n, S) == {m \in S : m > n}

LEMMA PlaceCounts ==
  ASSUME NEW S \in SUBSET Nat, IsFiniteSet(S), NEW n
  PROVE  /\ Pages!Place(n, S) = Cardinality(Newer(n, S))
         /\ Pages!Place(n, S) \in Nat
         /\ IsFiniteSet(Newer(n, S))
<1>1. IsFiniteSet(Newer(n, S))
  BY FS_Subset DEF Newer
<1> QED BY <1>1, PagesCount, FS_CardinalityType DEF Pages!Place, Newer

\* The place of a row only grows with the rows, and only newer rows count.
LEMMA PlaceGrows ==
  ASSUME NEW S \in SUBSET Nat, IsFiniteSet(S), NEW T \in SUBSET Nat, IsFiniteSet(T), NEW n,
         Newer(n, S) \subseteq Newer(n, T)
  PROVE  Pages!Place(n, S) <= Pages!Place(n, T)
BY PlaceCounts, FS_Subset

\* There is a row at every place before that of a row.
LEMMA SomeRowIsAt ==
  ASSUME NEW S \in SUBSET Nat, IsFiniteSet(S), NEW n \in S, NEW offset \in Nat,
         Pages!Place(n, S) >= offset
  PROVE  \E m \in S : Pages!Place(m, S) = offset
<1> DEFINE places == {p \in Nat : p >= offset /\ \E m \in S : Pages!Place(m, S) = p}
<1>1. Pages!Place(n, S) \in places
  BY PlaceCounts
<1>2. PICK p \in places : \A q \in places : p <= q
  BY <1>1, LeastOf
<1>3. PICK m \in S : Pages!Place(m, S) = p
  BY <1>2
<1>4. CASE p = offset
  BY <1>3, <1>4
<1>5. CASE p > offset
  <2>1. Cardinality(Newer(m, S)) = p /\ IsFiniteSet(Newer(m, S))
    BY <1>3, PlaceCounts
  <2>2. Newer(m, S) # {}
    BY <1>5, <2>1, FS_EmptySet
  <2>3. PICK x \in Newer(m, S) : \A y \in Newer(m, S) : x <= y
    <3>1. Newer(m, S) \in SUBSET Nat
      BY DEF Newer
    <3> QED BY <2>2, <3>1, LeastOf
  <2>4. Newer(x, S) = Newer(m, S) \ {x}
    <3>1. \A y \in S : y > x <=> y > m /\ y # x
      BY <2>3 DEF Newer
    <3> QED BY <2>3, <3>1 DEF Newer
  <2>5. Pages!Place(x, S) = p - 1
    BY <2>1, <2>3, <2>4, FS_RemoveElement, PlaceCounts
  <2>6. p - 1 \in places
    BY <1>5, <2>3, <2>5 DEF Newer
  <2> QED BY <1>2, <2>6
<1> QED BY <1>2, <1>4, <1>5

\* So a page is empty only behind all rows.
LEMMA PageIsFilled ==
  ASSUME NEW S \in SUBSET Nat, IsFiniteSet(S), NEW n \in S, NEW offset \in Nat, NEW limit \in Nat \ {0},
         Pages!Slice(S, offset, limit) = {}
  PROVE  Pages!Place(n, S) < offset
<1> SUFFICES ASSUME Pages!Place(n, S) >= offset PROVE FALSE
  BY PlaceCounts
<1>1. PICK m \in S : Pages!Place(m, S) = offset
  BY SomeRowIsAt
<1> QED BY <1>1 DEF Pages!Slice

\* The size a List call takes is at least one, whatever it is asked for.
LEMMA SizesArePositive ==
  ASSUME NEW k \in Kinds, NEW size \in Sizes
  PROVE  Pages!SizeOf(k, size) \in Nat \ {0}
BY ListingAssumptions DEF Pages!Assumptions, Pages!PageSizes, Pages!SizeOf

-----------------------------------------------------------------------------
(* Listing: the reader *)

Offset == (reader.page - 1) * Pages!SizeOf(kind, reader.size)

\* A row that was there all the time and is on no page so far is on one to
\* come, unless a deletion moved it.
PagesInv ==
    /\ kind \in Kinds
    /\ row \in [Pages!Rows -> {"none", "stamped", "live", "deleted"}]
    /\ reader \in [pc : {"idle", "reading", "done"}, size : Sizes, page : Nat \ {0},
                   throughout : SUBSET Pages!Rows, told : SUBSET Pages!Rows,
                   deleted : SUBSET Pages!Rows, answers : SUBSET {"OK", "NotFound", "Internal"}]
    /\ reader.throughout \subseteq Pages!Live
    /\ \A n \in reader.told : row[n] \in {"live", "deleted"}
    /\ \A n \in Pages!Rows : row[n] = "deleted" => Pages!ListOf[kind].deletes
    /\ "Internal" \notin reader.answers
    /\ reader.pc = "idle" => reader.page = 1 /\ reader.throughout = {} /\ reader.told = {}
    /\ reader.pc = "reading" => \A n \in reader.throughout \ reader.told :
          (\E m \in reader.deleted : m > n) \/ Pages!Place(n, Pages!Live) >= Offset
    /\ reader.pc = "done" => \A n \in reader.throughout \ reader.told : \E m \in reader.deleted : m > n

LEMMA RowsAreNumbers ==
  /\ Pages!Rows \subseteq Nat /\ Pages!Live \subseteq Pages!Rows
  /\ IsFiniteSet(Pages!Rows) /\ IsFiniteSet(Pages!Live)
<1>1. MaxRows \in Nat
  BY ListingAssumptions DEF Pages!Assumptions
<1>2. Pages!Rows \subseteq Nat /\ IsFiniteSet(Pages!Rows)
  BY <1>1, FS_Interval DEF Pages!Rows
<1>3. Pages!Live \subseteq Pages!Rows
  BY DEF Pages!Live
<1> QED BY <1>2, <1>3, FS_Subset

\* No list whose rows are deleted answers with the internal error.
LEMMA DeletesAnswerNotFound ==
  ASSUME NEW k \in Kinds, Pages!ListOf[k].deletes
  PROVE  Pages!ListOf[k].missing # "Internal"
BY ListingAssumptions
DEF Pages!Assumptions, Pages!ListOf, Pages!TargetList, Pages!PayloadList, Pages!ReleaseList,
    Pages!AccountList, Pages!SessionList, Pages!UserList, Pages!SystemList, Pages!TenantList,
    Pages!GetTarget, Pages!GetPayload, Pages!GetRelease, Pages!GetAccount, Pages!GetSession,
    Pages!GetUser, Pages!GetSystem, Pages!GetTenant

LEMMA PagesInit == Pages!Init => PagesInv
BY RowsAreNumbers DEF Pages!Init, PagesInv

\* Rows come and go, the reader stays where it is.
LEMMA StampsKeep ==
  ASSUME PagesInv, NEW n \in Pages!Rows, Pages!Stamp(n)
  PROVE  PagesInv'
<1>1. Pages!Live' = Pages!Live /\ UNCHANGED <<kind, reader>> /\ Pages!Rows' = Pages!Rows
  BY DEF PagesInv, Pages!Stamp, Pages!Live, Pages!Rows
<1>2. Offset' = Offset /\ Pages!Place(n, Pages!Live)' = Pages!Place(n, Pages!Live)
  BY <1>1 DEF Offset, Pages!SizeOf
<1>3. row' \in [Pages!Rows -> {"none", "stamped", "live", "deleted"}]
  BY DEF PagesInv, Pages!Stamp
<1>4. \A m \in Pages!Rows : row'[m] = row[m] \/ (row[m] = "none" /\ row'[m] = "stamped")
  BY DEF PagesInv, Pages!Stamp
<1> QED BY <1>1, <1>2, <1>3, <1>4 DEF PagesInv

LEMMA InsertedRowsKeep ==
  ASSUME PagesInv, NEW n \in Pages!Rows, Pages!Insert(n)
  PROVE  PagesInv'
<1>1. Pages!Live' = Pages!Live \cup {n} /\ UNCHANGED <<kind, reader>>
  BY DEF PagesInv, Pages!Insert, Pages!Live
<1>2. Offset' = Offset /\ Pages!Rows' = Pages!Rows
  BY <1>1 DEF Offset, Pages!SizeOf, Pages!Rows
<1>3. row' \in [Pages!Rows -> {"none", "stamped", "live", "deleted"}]
  BY DEF PagesInv, Pages!Insert
<1>4. \A m \in Pages!Rows : row'[m] = row[m] \/ (row[m] = "stamped" /\ row'[m] = "live")
  BY DEF PagesInv, Pages!Insert
<1>5. Pages!Live \in SUBSET Nat /\ IsFiniteSet(Pages!Live)
      /\ Pages!Live' \in SUBSET Nat /\ IsFiniteSet(Pages!Live')
  BY <1>1, RowsAreNumbers, FS_AddElement
<1>6. \A m : Pages!Place(m, Pages!Live) <= Pages!Place(m, Pages!Live')
  BY <1>1, <1>5, PlaceGrows DEF Newer
<1>7. /\ Offset \in Int
      /\ \A m : Pages!Place(m, Pages!Live) \in Nat /\ Pages!Place(m, Pages!Live') \in Nat
  BY <1>5, PlaceCounts, SizesArePositive DEF Offset, PagesInv
<1>8. reader.pc = "reading" => \A m \in reader.throughout \ reader.told :
          (\E d \in reader.deleted : d > m) \/ Pages!Place(m, Pages!Live') >= Offset'
  <2> SUFFICES ASSUME reader.pc = "reading", NEW m \in reader.throughout \ reader.told
               PROVE  (\E d \in reader.deleted : d > m) \/ Pages!Place(m, Pages!Live') >= Offset'
    OBVIOUS
  <2>1. (\E d \in reader.deleted : d > m) \/ Pages!Place(m, Pages!Live) >= Offset
    BY DEF PagesInv
  <2> QED BY <1>2, <1>6, <1>7, <2>1
<1> QED BY <1>1, <1>2, <1>3, <1>4, <1>8 DEF PagesInv

LEMMA DeletedRowsKeep ==
  ASSUME PagesInv, NEW n \in Pages!Rows, Pages!Delete(n)
  PROVE  PagesInv'
<1>1. /\ Pages!Live' = Pages!Live \ {n} /\ UNCHANGED kind
      /\ row' \in [Pages!Rows -> {"none", "stamped", "live", "deleted"}]
      /\ \A m \in Pages!Rows : row'[m] = row[m] \/ (row[m] = "live" /\ row'[m] = "deleted")
      /\ Pages!ListOf[kind].deletes
  BY DEF PagesInv, Pages!Delete, Pages!Live
<1>2. /\ UNCHANGED <<reader.pc, reader.size, reader.page, reader.told, reader.answers>>
      /\ reader'.throughout = reader.throughout \ {n}
      /\ reader'.deleted = IF reader.pc = "reading" THEN reader.deleted \cup {n} ELSE reader.deleted
      /\ reader' \in [pc : {"idle", "reading", "done"}, size : Sizes, page : Nat \ {0},
                      throughout : SUBSET Pages!Rows, told : SUBSET Pages!Rows,
                      deleted : SUBSET Pages!Rows, answers : SUBSET {"OK", "NotFound", "Internal"}]
  BY DEF PagesInv, Pages!Delete
<1>3. Offset' = Offset /\ Pages!Rows' = Pages!Rows
  BY <1>1, <1>2 DEF Offset, Pages!SizeOf, Pages!Rows
<1>4. /\ Pages!Live \in SUBSET Nat /\ IsFiniteSet(Pages!Live)
      /\ Pages!Live' \in SUBSET Nat /\ IsFiniteSet(Pages!Live')
  BY <1>1, RowsAreNumbers, FS_RemoveElement
<1>5. ASSUME reader.pc = "reading", NEW m \in reader'.throughout \ reader'.told
      PROVE  (\E d \in reader'.deleted : d > m) \/ Pages!Place(m, Pages!Live') >= Offset'
  <2>1. (\E d \in reader.deleted : d > m) \/ Pages!Place(m, Pages!Live) >= Offset
    BY <1>2, <1>5 DEF PagesInv
  <2>2. m \in Nat /\ n \in Nat /\ m # n
    BY <1>2, <1>5, RowsAreNumbers DEF PagesInv
  <2>3. CASE n > m
    BY <1>2, <1>5, <2>3
  <2>4. CASE n < m
    <3>1. Newer(m, Pages!Live') = Newer(m, Pages!Live)
      BY <1>1, <1>4, <2>2, <2>4 DEF Newer
    <3>2. Pages!Place(m, Pages!Live') = Pages!Place(m, Pages!Live)
      BY <1>4, <3>1, PlaceCounts
    <3> QED BY <1>2, <1>3, <1>5, <2>1, <3>2
  <2> QED BY <2>2, <2>3, <2>4
<1>6. \A m \in reader'.throughout : m \in Pages!Live'
  BY <1>1, <1>2 DEF PagesInv
<1> QED BY <1>1, <1>2, <1>3, <1>5, <1>6 DEF PagesInv

LEMMA StartsKeep ==
  ASSUME PagesInv, NEW size \in Sizes, Pages!StartReading(size)
  PROVE  PagesInv'
<1>1. /\ UNCHANGED <<kind, row, reader.page, reader.told, reader.deleted, reader.answers>>
      /\ reader.pc = "idle" /\ reader'.pc = "reading" /\ reader'.throughout = Pages!Live
      /\ reader' \in [pc : {"idle", "reading", "done"}, size : Sizes, page : Nat \ {0},
                      throughout : SUBSET Pages!Rows, told : SUBSET Pages!Rows,
                      deleted : SUBSET Pages!Rows, answers : SUBSET {"OK", "NotFound", "Internal"}]
  BY RowsAreNumbers DEF PagesInv, Pages!StartReading
<1>2. Pages!Live' = Pages!Live /\ Pages!Rows' = Pages!Rows
  BY <1>1 DEF Pages!Live, Pages!Rows
<1>3. Offset' = 0
  <2>1. reader'.page = 1 /\ Pages!SizeOf(kind, reader.size)' \in Nat
    BY <1>1, SizesArePositive DEF PagesInv, Pages!SizeOf
  <2> QED BY <2>1 DEF Offset
<1>4. \A m : Pages!Place(m, Pages!Live) \in Nat
  BY RowsAreNumbers, PlaceCounts
<1> QED BY <1>1, <1>2, <1>3, <1>4 DEF PagesInv

LEMMA GetsKeep ==
  ASSUME PagesInv, NEW n \in Pages!Rows, Pages!ReadRow(n)
  PROVE  PagesInv'
<1> DEFINE answer == IF row[n] = "live" THEN "OK" ELSE Pages!ListOf[kind].missing
<1>1. answer \in {"OK", "NotFound"}
  <2>1. row[n] # "live" => Pages!ListOf[kind].deletes
    BY DEF PagesInv, Pages!ReadRow
  <2>2. Pages!ListOf[kind].missing \in {"NotFound", "Internal"}
    BY ListingAssumptions
    DEF PagesInv, Pages!Assumptions, Pages!ListOf, Pages!TargetList, Pages!PayloadList, Pages!ReleaseList,
        Pages!AccountList, Pages!SessionList, Pages!UserList, Pages!SystemList, Pages!TenantList,
        Pages!GetTarget, Pages!GetPayload, Pages!GetRelease, Pages!GetAccount, Pages!GetSession,
        Pages!GetUser, Pages!GetSystem, Pages!GetTenant
  <2> QED BY <2>1, <2>2, DeletesAnswerNotFound DEF PagesInv
<1>2. reader' = [reader EXCEPT !.answers = @ \cup {answer}] /\ UNCHANGED <<kind, row>>
  BY DEF Pages!ReadRow
<1> HIDE DEF answer
<1>3. /\ UNCHANGED <<kind, row, reader.pc, reader.size, reader.page, reader.throughout, reader.told,
                     reader.deleted>>
      /\ "Internal" \notin reader'.answers
      /\ reader' \in [pc : {"idle", "reading", "done"}, size : Sizes, page : Nat \ {0},
                      throughout : SUBSET Pages!Rows, told : SUBSET Pages!Rows,
                      deleted : SUBSET Pages!Rows, answers : SUBSET {"OK", "NotFound", "Internal"}]
  BY <1>1, <1>2 DEF PagesInv
<1>4. /\ Pages!Live' = Pages!Live /\ Pages!Rows' = Pages!Rows /\ Offset' = Offset
  BY <1>3 DEF Pages!Live, Pages!Rows, Offset, Pages!SizeOf
<1> QED BY <1>3, <1>4 DEF PagesInv

\* A page is read: what is neither told before nor on it is behind it.
LEMMA ReadsOnKeep ==
  ASSUME PagesInv, Pages!ReadPage
  PROVE  PagesInv'
<1> DEFINE size == Pages!SizeOf(kind, reader.size)
           page == Pages!Page(Pages!Live, kind, reader.page, reader.size)
<1>1. /\ size \in Nat \ {0} /\ reader.page \in Nat \ {0} /\ Offset = (reader.page - 1) * size
      /\ Offset \in Nat
  <2>1. size \in Nat \ {0} /\ reader.page \in Nat \ {0}
    BY SizesArePositive DEF PagesInv
  <2>2. \A p \in Nat \ {0}, q \in Nat : (p - 1) * q \in Nat
    OBVIOUS
  <2> QED BY <2>1, <2>2 DEF Offset
<1>2. page = Pages!Slice(Pages!Live, Offset, size)
  BY <1>1 DEF Pages!Page, Pages!PageOf, Offset
<1> HIDE DEF page, size
<1>3. page \subseteq Pages!Live
  BY <1>2 DEF Pages!Slice
<1>4. /\ reader.pc = "reading" /\ UNCHANGED <<kind, row>>
      /\ reader' = [reader EXCEPT !.pc = IF page = {} THEN "done" ELSE "reading",
                                  !.page = IF page = {} THEN @ ELSE @ + 1,
                                  !.told = @ \cup page]
  BY DEF Pages!ReadPage, page
<1>5. /\ UNCHANGED <<kind, row, reader.size, reader.throughout, reader.deleted, reader.answers>>
      /\ reader'.told = reader.told \cup page
      /\ IF page = {} THEN reader'.pc = "done" /\ reader'.page = reader.page
                      ELSE reader'.pc = "reading" /\ reader'.page = reader.page + 1
      /\ reader' \in [pc : {"idle", "reading", "done"}, size : Sizes, page : Nat \ {0},
                      throughout : SUBSET Pages!Rows, told : SUBSET Pages!Rows,
                      deleted : SUBSET Pages!Rows, answers : SUBSET {"OK", "NotFound", "Internal"}]
  <2>1. reader.told \cup page \in SUBSET Pages!Rows
    BY <1>3, RowsAreNumbers DEF PagesInv
  <2>2. CASE page = {}
    <3>1. reader' = [reader EXCEPT !.pc = "done", !.page = reader.page, !.told = reader.told \cup page]
      BY <1>4, <2>2
    <3>2. reader \in [pc : {"idle", "reading", "done"}, size : Sizes, page : Nat \ {0},
                      throughout : SUBSET Pages!Rows, told : SUBSET Pages!Rows,
                      deleted : SUBSET Pages!Rows, answers : SUBSET {"OK", "NotFound", "Internal"}]
      BY DEF PagesInv
    <3> DEFINE told == reader.told \cup page
    <3>3. reader' = [reader EXCEPT !.pc = "done", !.told = told]
      BY <3>1, <3>2
    <3>4. told \in SUBSET Pages!Rows
      BY <2>1
    <3>5. told = reader.told \cup page
      OBVIOUS
    <3> HIDE DEF told
    <3>6. /\ reader'.size = reader.size /\ reader'.throughout = reader.throughout
          /\ reader'.deleted = reader.deleted /\ reader'.answers = reader.answers
          /\ reader'.told = told /\ reader'.pc = "done" /\ reader'.page = reader.page
      BY <3>2, <3>3
    <3>7. reader' \in [pc : {"idle", "reading", "done"}, size : Sizes, page : Nat \ {0},
                       throughout : SUBSET Pages!Rows, told : SUBSET Pages!Rows,
                       deleted : SUBSET Pages!Rows, answers : SUBSET {"OK", "NotFound", "Internal"}]
      BY <3>2, <3>3, <3>4
    <3> QED BY <1>4, <2>2, <3>5, <3>6, <3>7
  <2>3. CASE page # {}
    <3>1. reader' = [reader EXCEPT !.pc = "reading", !.page = reader.page + 1, !.told = reader.told \cup page]
      BY <1>4, <2>3
    <3>2. reader \in [pc : {"idle", "reading", "done"}, size : Sizes, page : Nat \ {0},
                      throughout : SUBSET Pages!Rows, told : SUBSET Pages!Rows,
                      deleted : SUBSET Pages!Rows, answers : SUBSET {"OK", "NotFound", "Internal"}]
      BY DEF PagesInv
    <3>3. reader.page + 1 \in Nat \ {0}
      BY <1>1
    <3> DEFINE next == reader.page + 1
               told == reader.told \cup page
    <3>4. reader' = [reader EXCEPT !.pc = "reading", !.page = next, !.told = told]
      BY <3>1
    <3>5. next \in Nat \ {0} /\ told \in SUBSET Pages!Rows
      BY <2>1, <3>3
    <3>6. next = reader.page + 1 /\ told = reader.told \cup page
      OBVIOUS
    <3> HIDE DEF next, told
    <3> QED BY <1>4, <2>3, <3>2, <3>4, <3>5, <3>6
  <2> QED BY <2>2, <2>3
<1>6. Pages!Live' = Pages!Live /\ Pages!Rows' = Pages!Rows
  BY <1>5 DEF Pages!Live, Pages!Rows
<1>7. \A n \in reader'.told : row[n] \in {"live", "deleted"}
  BY <1>3, <1>5 DEF PagesInv, Pages!Live
<1>8. Pages!Live \in SUBSET Nat /\ IsFiniteSet(Pages!Live)
  BY RowsAreNumbers
<1>9. CASE page = {}
  <2>1. ASSUME NEW n \in reader.throughout \ reader.told
        PROVE  \E m \in reader.deleted : m > n
    <3>1. n \in Pages!Live
      BY <2>1 DEF PagesInv
    <3>2. ~ (Pages!Place(n, Pages!Live) >= Offset)
      <4>1. Pages!Slice(Pages!Live, Offset, size) = {}
        BY <1>2, <1>9
      <4>2. Pages!Place(n, Pages!Live) < Offset
        BY <1>1, <1>8, <3>1, <4>1, PageIsFilled
      <4>3. Pages!Place(n, Pages!Live) \in Nat
        BY <1>8, PlaceCounts
      <4> QED BY <1>1, <4>2, <4>3
    <3> QED BY <1>4, <2>1, <3>2 DEF PagesInv
  <2> QED BY <1>5, <1>6, <1>7, <1>9, <2>1 DEF PagesInv
<1>10. CASE page # {}
  <2>1. Offset' = Offset + size
    <3>1. Offset' = (reader.page + 1 - 1) * size
      <4>1. reader'.page = reader.page + 1
        BY <1>5, <1>10
      <4>2. Offset' = (reader'.page - 1) * size
        BY <1>5 DEF Offset, size, Pages!SizeOf
      <4> QED BY <1>1, <4>1, <4>2
    <3>2. \A p \in Nat, q \in Nat : (p + 1 - 1) * q = (p - 1) * q + q
      OBVIOUS
    <3> QED BY <1>1, <3>1, <3>2
  <2>2. ASSUME NEW n \in reader.throughout \ reader'.told
        PROVE  (\E m \in reader.deleted : m > n) \/ Pages!Place(n, Pages!Live) >= Offset'
    <3>1. n \in Pages!Live /\ n \notin page /\ n \notin reader.told
      BY <1>5, <2>2 DEF PagesInv
    <3>2. (\E m \in reader.deleted : m > n) \/ Pages!Place(n, Pages!Live) >= Offset
      BY <1>4, <3>1 DEF PagesInv
    <3>3. Pages!Place(n, Pages!Live) \notin Offset..(Offset + size - 1)
      BY <1>2, <3>1 DEF Pages!Slice
    <3>4. Pages!Place(n, Pages!Live) \in Nat
      BY <1>8, PlaceCounts
    <3> QED BY <1>1, <2>1, <3>2, <3>3, <3>4
  <2> QED BY <1>5, <1>6, <1>7, <1>10, <2>2 DEF PagesInv
<1> QED BY <1>9, <1>10

LEMMA PagesKeep ==
  ASSUME PagesInv, [Pages!Next]_(Pages!vars)
  PROVE  PagesInv'
<1>1. CASE UNCHANGED Pages!vars
  BY <1>1 DEF Pages!vars, PagesInv, Offset, Pages!Live, Pages!Rows, Pages!SizeOf
<1>2. CASE Pages!Next
  BY <1>2, StampsKeep, InsertedRowsKeep, DeletedRowsKeep, StartsKeep, GetsKeep, ReadsOnKeep
  DEF Pages!Next
<1> QED BY <1>1, <1>2

\* A client that reads page after page to the end gets every row that was there
\* all the time, unless a newer row was deleted meanwhile, whatever size it asks
\* for; nobody is answered with the internal error of Release.Get
\* (service/target.go:148-179, release.go:75).
THEOREM EveryReaderIsServed == Pages!Spec => []ReaderIsServed
<1>1. PagesInv => ReaderIsServed
  BY DEF PagesInv, ReaderIsServed, Pages!ReaderIsServed
<1> QED BY <1>1, PagesInit, PagesKeep, PTL DEF Pages!Spec

-----------------------------------------------------------------------------
(* The parts together *)

LEMMA PartMoves ==
  ASSUME [PartNext]_allVars
  PROVE  /\ [Uploads!Next]_(Uploads!vars)
         /\ [Host!Next]_(Host!vars)
         /\ [Rows!Next]_(Rows!vars)
         /\ [Pages!Next]_(Pages!vars)
<1>1. CASE UploadsStep
  BY <1>1 DEF UploadsStep, installVars, accessVars, listingVars, Host!vars, Rows!vars, Pages!vars
<1>2. CASE HostStep
  BY <1>2 DEF HostStep, payloadVars, accessVars, listingVars, Uploads!vars, Rows!vars, Pages!vars
<1>3. CASE PostingStep \/ ChangingStep
  BY <1>3 DEF PostingStep, ChangingStep, payloadVars, installVars, accessVars, listingVars,
              Uploads!vars, Host!vars, Rows!vars, Pages!vars
<1>4. CASE RowsStep
  BY <1>4 DEF RowsStep, payloadVars, installVars, listingVars, Uploads!vars, Host!vars, Pages!vars
<1>5. CASE PagesStep
  BY <1>5 DEF PagesStep, payloadVars, installVars, accessVars, Uploads!vars, Host!vars, Rows!vars
<1>6. CASE UNCHANGED allVars
  BY <1>6 DEF allVars, payloadVars, installVars, accessVars, listingVars,
              Uploads!vars, Host!vars, Rows!vars, Pages!vars
<1> QED BY <1>1, <1>2, <1>3, <1>4, <1>5, <1>6 DEF PartNext

\* A behaviour of the records together is one of each of these parts, so what is
\* proved of a part holds of them together too (service/payload.go, infra/ssh.go and
\* service/user.go are parts that share no state here).
THEOREM RecordsFollowTheirParts ==
  PartSpec => Uploads!Spec /\ Host!Spec /\ Rows!Spec /\ Pages!Spec
<1>1. PartInit => Uploads!Init /\ Host!Init /\ Rows!Init /\ Pages!Init
  BY DEF PartInit
<1> QED BY <1>1, PartMoves, PTL DEF PartSpec, Uploads!Spec, Host!Spec, Rows!Spec, Pages!Spec

=============================================================================
