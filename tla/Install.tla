------------------------------- MODULE Install -------------------------------
(***************************************************************************)
(* One host, and the installations on it (internal/infra/ssh.go Deploy):   *)
(* the stop command, the upload of the archive under a new name in /tmp,   *)
(* the extraction over what is in the home directory, the start command,   *)
(* and the deferred removal of the archive.  Module Deploy takes all of it *)
(* as one step.                                                            *)
(*                                                                         *)
(* The stop and the start command come from the client: either may be      *)
(* missing, and one that is there need not stop or start anything (the     *)
(* tests of the repository stop with "true").  The deploy lock of a target *)
(* keeps installations apart; two overlap when one of them outlives its    *)
(* lock, or when two targets name one host.                                *)
(***************************************************************************)
EXTENDS Integers, FiniteSets

CONSTANTS
    Installations,  \* executions of the deploy activity that get to the host
    Files,          \* names of files in the home directory
    Requests,       \* what releases ask for: see Request
    Null,
    Faults,         \* kinds of failure that happen
    MaxFailures     \* bound: how many failures a behaviour contains

FaultKinds == {"command", "cut", "upload", "removal", "overlap"}

\* What an archive holds, and what the two commands do: "none" is no command,
\* "stops" one that stops whatever release runs, "starts" one that leaves the
\* release running, "other" one that does neither.
Request == [files : SUBSET Files,
            stop  : {"none", "other", "stops"},
            start : {"none", "other", "starts"}]

\* What the constants are; a module that instantiates this one states it.
Assumptions ==
    /\ Null \notin Installations
    /\ Requests \subseteq Request
    /\ Faults \subseteq FaultKinds
    /\ MaxFailures \in Nat

VARIABLES
    pc,         \* what each installation is at
    request,    \* what each installation is asked for
    failing,    \* the installations that will report an error
    home,       \* the installation that wrote each file last
    running,    \* the processes: who started them, and over which files of theirs
    archives,   \* the archives in /tmp
    orphans,    \* commands the host is at, of installations that were cut
    last,       \* history: the installation that began last
    disturbed,  \* history: it was not alone on the host
    failed      \* history: the kinds of failure so far, with their number

vars == <<pc, request, failing, home, running, archives, orphans, last, disturbed, failed>>

-----------------------------------------------------------------------------
Working == {"stop", "upload", "extract", "start", "remove"}

AtWork == {i \in Installations : pc[i] \in Working}

Failures == failed.command + failed.cut + failed.upload + failed.removal + failed.overlap

Fail(k) ==
    /\ k \in Faults
    /\ Failures < MaxFailures
    /\ failed' = [failed EXCEPT ![k] = @ + 1]

GoTo(i, step) == pc' = [pc EXCEPT ![i] = step]

\* What the commands of installation i make of the host.
Stopped(i) == IF request[i].stop = "stops" THEN {} ELSE running

\* unzip -o: files that the archive does not hold stay what they are.
Overlay(i, done) == [f \in Files |-> IF f \in done THEN i ELSE home[f]]

Started(i) ==
    IF request[i].start = "starts" /\ \A p \in running : p.by # i
    THEN running \cup {[by |-> i, over |-> {f \in request[i].files : home[f] = i}]}
    ELSE running

\* Dial and the handshake; one that fails is not seen by the host.
Connect(i, r) ==
    /\ pc[i] = "idle"
    /\ IF AtWork = {} THEN UNCHANGED failed ELSE Fail("overlap")
    /\ GoTo(i, IF r.stop = "none" THEN "upload" ELSE "stop")
    /\ request' = [request EXCEPT ![i] = r]
    /\ last' = i
    /\ disturbed' = (AtWork # {})
    /\ UNCHANGED <<failing, home, running, archives, orphans>>

\* Variant: a stop command that fails is not minded.
StopOrNot(i) ==
    /\ pc[i] = "stop"
    /\ GoTo(i, "upload")
    /\ \/ running' = Stopped(i) /\ UNCHANGED failed
       \/ Fail("command") /\ UNCHANGED running
    /\ UNCHANGED <<request, failing, home, archives, orphans, last, disturbed>>

Stop(i) ==
    /\ pc[i] = "stop"
    /\ \/ running' = Stopped(i) /\ GoTo(i, "upload") /\ UNCHANGED failed
       \/ Fail("command") /\ GoTo(i, "failed") /\ running' \in {running, Stopped(i)}
    /\ UNCHANGED <<request, failing, home, archives, orphans, last, disturbed>>

\* The removal is deferred when the upload is done: a part of a file stays.
Upload(i) ==
    /\ pc[i] = "upload"
    /\ \/ archives' = archives \cup {i} /\ GoTo(i, "extract") /\ UNCHANGED failed
       \/ /\ Fail("upload")
          /\ archives' \in {archives, archives \cup {i}}
          /\ GoTo(i, "failed")
    /\ UNCHANGED <<request, failing, home, running, orphans, last, disturbed>>

Extracted(i) ==
    /\ home' = Overlay(i, request[i].files)
    /\ GoTo(i, IF request[i].start = "none" THEN "remove" ELSE "start")
    /\ UNCHANGED <<failing, failed>>

\* Variant: the removal is deferred after the extraction.
ExtractThenDefer(i) ==
    /\ pc[i] = "extract"
    /\ \/ Extracted(i)
       \/ Fail("command") /\ GoTo(i, "failed") /\ UNCHANGED <<failing, home>>
    /\ UNCHANGED <<request, running, archives, orphans, last, disturbed>>

\* An extraction that fails has written some of the files; a part of one counts.
Extract(i) ==
    /\ pc[i] = "extract"
    /\ \/ Extracted(i)
       \/ /\ Fail("command")
          /\ \E done \in SUBSET request[i].files : home' = Overlay(i, done)
          /\ failing' = failing \cup {i}
          /\ GoTo(i, "remove")
    /\ UNCHANGED <<request, running, archives, orphans, last, disturbed>>

\* The session lasts as long as the command: one that runs the release in the
\* foreground has started it and is still waited for.
Start(i) ==
    /\ pc[i] = "start"
    /\ \/ running' = Started(i) /\ GoTo(i, "remove") /\ UNCHANGED <<failing, failed>>
       \/ running' = Started(i) /\ UNCHANGED <<pc, failing, failed>>
       \/ /\ Fail("command")
          /\ running' \in {running, Started(i)}
          /\ failing' = failing \cup {i}
          /\ GoTo(i, "remove")
    /\ UNCHANGED <<request, home, archives, orphans, last, disturbed>>

\* Nobody looks at its error.
Remove(i) ==
    /\ pc[i] = "remove"
    /\ \/ archives' = archives \ {i} /\ UNCHANGED failed
       \/ Fail("removal") /\ UNCHANGED archives
    /\ GoTo(i, IF i \in failing THEN "failed" ELSE "ok")
    /\ UNCHANGED <<request, failing, home, running, orphans, last, disturbed>>

\* The connection is lost, or the context of the activity ends: no command is
\* run any more, the removal neither.  The host goes on with the one it is at.
Cut(i) ==
    /\ pc[i] \in Working
    /\ Fail("cut")
    /\ GoTo(i, IF pc[i] = "remove" /\ i \notin failing THEN "ok" ELSE "failed")
    /\ orphans' = orphans \cup {<<i, s>> : s \in {pc[i]} \cap {"stop", "extract", "start"}}
    /\ archives' \in {archives} \cup {archives \cup {i} : s \in {pc[i]} \cap {"upload"}}
    /\ UNCHANGED <<request, failing, home, running, last, disturbed>>

\* The command of an installation that was cut ends, it may be during the next,
\* or after it.
Straggle(i, step) ==
    /\ <<i, step>> \in orphans
    /\ orphans' = orphans \ {<<i, step>>}
    /\ IF last = i THEN UNCHANGED <<disturbed, failed>> ELSE Fail("overlap") /\ disturbed' = TRUE
    /\ \/ step = "stop" /\ running' = Stopped(i) /\ UNCHANGED home
       \/ /\ step = "extract"
          /\ \E done \in SUBSET request[i].files : home' = Overlay(i, done)
          /\ UNCHANGED running
       \/ step = "start" /\ running' = Started(i) /\ UNCHANGED home
    /\ UNCHANGED <<pc, request, failing, archives, last>>

-----------------------------------------------------------------------------
Init ==
    /\ pc = [i \in Installations |-> "idle"]
    /\ request = [i \in Installations |-> Null]
    /\ failing = {}
    /\ home = [f \in Files |-> Null]
    /\ running = {}
    /\ archives = {}
    /\ orphans = {}
    /\ last = Null
    /\ disturbed = FALSE
    /\ failed = [k \in FaultKinds |-> 0]

Next ==
    \E i \in Installations :
       \/ \E r \in Requests : Connect(i, r)
       \/ Stop(i)
       \/ Upload(i)
       \/ Extract(i)
       \/ Start(i)
       \/ Remove(i)
       \/ Cut(i)
       \/ \E s \in {"stop", "extract", "start"} : Straggle(i, s)

Spec == Init /\ [][Next]_vars

-----------------------------------------------------------------------------
(* Properties *)

\* Every variable keeps its type.
TypeOK ==
    /\ pc \in [Installations -> Working \cup {"idle", "ok", "failed"}]
    /\ request \in [Installations -> Requests \cup {Null}]
    /\ failing \subseteq Installations
    /\ home \in [Files -> Installations \cup {Null}]
    /\ running \subseteq [by : Installations, over : SUBSET Files]
    /\ archives \subseteq Installations
    /\ orphans \subseteq Installations \X {"stop", "extract", "start"}
    /\ last \in Installations \cup {Null}
    /\ disturbed \in BOOLEAN
    /\ failed \in [FaultKinds -> 0..MaxFailures]

\* When the installation that began last has succeeded, whatever became of those
\* before it, its files are in place; if its start command starts the release,
\* that runs, over these files and no others; and if its stop command stops
\* what runs, nothing of an earlier one does.  Unless another installation, or
\* a command of one that was cut, was at the host since it began
\* (infra/ssh.go:51-72).
SuccessIsWhatRuns ==
    last # Null /\ pc[last] = "ok" /\ ~disturbed =>
       /\ \A f \in request[last].files : home[f] = last
       /\ request[last].start = "starts" => \E p \in running : p.by = last
       /\ \A p \in running : IF p.by = last THEN p.over = request[last].files
                                            ELSE request[last].stop # "stops"

\* An archive that is left in /tmp was cut off or its upload or removal failed:
\* a command of the payload that fails does not leave one (infra/ssh.go:57-66).
LeftArchivesArePaidFor ==
    Cardinality(archives \ AtWork) <= failed.cut + failed.upload + failed.removal

=============================================================================
