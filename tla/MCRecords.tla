----------------------------- MODULE MCRecords -----------------------------
(***************************************************************************)
(* Small instances of the modules about the records of a tenant and what   *)
(* its jobs make of them: Sync, Payload, Install, Access (with the rows of *)
(* systems and sessions) and Listing.                                      *)
(*                                                                         *)
(* They share no state.  A behaviour is one of a single part, which it     *)
(* names at its start; the others stay in one of their initial states, as  *)
(* in module MCTenancy.                                                    *)
(***************************************************************************)
EXTENDS Sync, TLC

CONSTANTS
    Handlers,
    Payloads, Nowhere, Builders, Names, KeyName, Archives, Broken, MaxSize, PayloadFaults,
    conf, other,
    Installations, Files, Requests, InstallFaults, InstallMaxFailures,
    Root, Users, Systems, Sessions, Values, Online, Offline, AccessFaults,
    Kinds, Sizes, Default, Largest, MaxRows

VARIABLES
    part,
    payload, object, payloadHandling, building, acked, edited, payloadFailed,
    pc, request, failing, home, running, archives, orphans, last, disturbed, installFailed,
    table, call, later, accessFailures,
    kind, row, reader

payloadVars == <<payload, object, payloadHandling, building, acked, edited, payloadFailed>>
installVars ==
    <<pc, request, failing, home, running, archives, orphans, last, disturbed, installFailed>>
accessVars == <<table, call, later, accessFailures>>
listingVars == <<kind, row, reader>>
allVars == <<part, payloadVars, installVars, vars, accessVars, listingVars>>

-----------------------------------------------------------------------------
Config(name) == [name |-> name, url |-> "marker", auth |-> "marker", readable |-> TRUE]
Bare(name, readable) == [name |-> name, url |-> "none", auth |-> "none", readable |-> readable]
Half(name) == [Config(name) EXCEPT !.auth = "none"]

MCNames == {conf, other, KeyName}

\* An archive of the largest size with a second entry of the name of the config,
\* one too large, one whose second entry of the name holds the markers, one whose
\* config is followed by an entry that cannot be read, one whose config has the
\* name of the key, and bytes that are no archive.
MCArchives ==
    {[size |-> MaxSize, entries |-> <<Config(conf), Half(conf)>>],
     [size |-> MaxSize + 1, entries |-> <<Config(conf)>>],
     [size |-> 1, entries |-> <<Half(conf), Config(conf), Config(other)>>],
     [size |-> 1, entries |-> <<Config(conf), Bare(other, FALSE)>>],
     [size |-> 1, entries |-> <<Config(KeyName)>>],
     Broken}

\* A release with all the files, that replaces what runs; one with a part of
\* them, whose stop command stops nothing; and one with the other part, of which
\* nothing is run.
MCRequests ==
    {[files |-> Files, stop |-> "stops", start |-> "starts"],
     [files |-> {conf}, stop |-> "other", start |-> "starts"],
     [files |-> {other}, stop |-> "none", start |-> "none"]}

OneTenant == [p \in Profiles |-> CHOOSE t \in Tenants : TRUE]

Uploads == INSTANCE Payload WITH
    Faults <- PayloadFaults, handling <- payloadHandling, failed <- payloadFailed

Host == INSTANCE Install WITH
    Faults <- InstallFaults, MaxFailures <- InstallMaxFailures, failed <- installFailed

\* Two failures and no change of the default system, or the other way round: the
\* same state and the same properties, with different bounds.
Changing == INSTANCE Sync WITH MaxChanges <- 2, MaxFailures <- 1

Rows == INSTANCE Access WITH Faults <- AccessFaults, failures <- accessFailures

Pages == INSTANCE Listing

ASSUME PayloadAssumptions == Uploads!Assumptions
ASSUME InstallAssumptions == Host!Assumptions
ASSUME AccessAssumptions == Rows!Assumptions
ASSUME ListingAssumptions == Pages!Assumptions

-----------------------------------------------------------------------------
UploadsStep ==
    /\ part = "payload"
    /\ Uploads!Next
    /\ UNCHANGED <<part, installVars, vars, accessVars, listingVars>>

HostStep ==
    /\ part = "install"
    /\ Host!Next
    /\ UNCHANGED <<part, payloadVars, vars, accessVars, listingVars>>

PostingStep ==
    /\ part = "sync"
    /\ Next
    /\ UNCHANGED <<part, payloadVars, installVars, accessVars, listingVars>>

ChangingStep ==
    /\ part = "changes"
    /\ Changing!Next
    /\ UNCHANGED <<part, payloadVars, installVars, accessVars, listingVars>>

RowsStep ==
    /\ part = "access"
    /\ Rows!Next
    /\ UNCHANGED <<part, payloadVars, installVars, vars, listingVars>>

PagesStep ==
    /\ part = "listing"
    /\ Pages!Next
    /\ UNCHANGED <<part, payloadVars, installVars, vars, accessVars>>

PartInit ==
    /\ part \in {"payload", "install", "sync", "changes", "access", "listing"}
    /\ Uploads!Init
    /\ Host!Init
    /\ Init
    /\ Rows!Init
    /\ part # "access" => \A t \in Tenants : table[t][Root].value = Offline
    /\ Pages!Init
    /\ part # "listing" => kind = "target" /\ reader.size = 0

PartNext ==
    \/ UploadsStep
    \/ HostStep
    \/ PostingStep
    \/ ChangingStep
    \/ RowsStep
    \/ PagesStep

PartSpec == PartInit /\ [][PartNext]_allVars

\* The handlers of Payload and of Access and the workers of Sync are the same
\* model values; no part has both.
ASSUME OneSetAssumption == Handlers = Workers

Symmetry == Permutations(Handlers) \cup Permutations(Installations)

-----------------------------------------------------------------------------
\* What the service accepted, a deployment can build (service/payload.go:38-58).
AcknowledgedPayloadBuilds == Uploads!AcknowledgedPayloadBuilds

\* What is installed has its address and token, or is shadowed (jobs/deploy.go:182-211).
InstalledIsConfigured == Uploads!InstalledIsConfigured

\* Rows and objects agree, but for what failures account for (service/payload.go:99-115).
StoresAgree == Uploads!LossesArePaidFor

\* A success is what runs on the host (infra/ssh.go:51-72).
SuccessIsWhatRuns == Host!SuccessIsWhatRuns

\* Archives left on the host are paid for by failures (infra/ssh.go:57-66).
LeftArchivesArePaidFor == Host!LeftArchivesArePaidFor

\* What the answers say of the rows is true (service/user.go:86-94, session.go:96-114).
AnswersAreTrue == Rows!AnswersAreTrue

\* Updates leave deleted rows alone (service/user.go:74-87).
DeletedRowsAreLeftAlone == Rows!DeletedRowsAreLeftAlone

\* A reader of all pages misses a row only by a deletion (service/target.go:148-179).
ReaderIsServed == Pages!ReaderIsServed

\* The type invariants of the parts together: every variable stays in its range.
TypesOK ==
    /\ Uploads!TypeOK
    /\ Host!TypeOK
    /\ IF part = "changes" THEN Changing!TypeOK ELSE TypeOK
    /\ Rows!TypeOK

=============================================================================
