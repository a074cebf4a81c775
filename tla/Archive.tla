------------------------------ MODULE Archive ------------------------------
(***************************************************************************)
(* The zip archives that clients upload as payloads: what Payload.Create   *)
(* requires of one (validate in internal/service/payload.go), and what the *)
(* deployment makes of it (inject in internal/jobs/deploy.go).             *)
(*                                                                         *)
(* Of the text of an entry only two things matter, whether it holds the    *)
(* markers {ZXC_URL} and {ZXC_AUTH}, and whether they were replaced.       *)
(***************************************************************************)
EXTENDS Integers, Sequences

CONSTANTS
    Names,        \* names of archive entries
    KeyName,      \* the name "key"
    Broken,       \* bytes that are no zip archive
    MaxSize       \* maxPayloadSize, 50 MB

Mark == {"none", "marker", "value"}

\* readable: the entry can be opened and read to its end.
Entry == [name : Names, url : Mark, auth : Mark, readable : BOOLEAN]

Archive == [size : Nat, entries : Seq(Entry)]

Readable(a) == \A i \in DOMAIN a.entries : a.entries[i].readable

\* validate, with the limit Create puts on the size: the first entry with the
\* name of the config holds both markers.  The other entries are not opened.
Accepted(a, config) ==
    /\ a # Broken
    /\ a.size <= MaxSize
    /\ \E i \in DOMAIN a.entries :
          /\ a.entries[i].name = config
          /\ \A j \in DOMAIN a.entries : j < i => a.entries[j].name # config
          /\ a.entries[i].readable
          /\ a.entries[i].url = "marker"
          /\ a.entries[i].auth = "marker"

\* What the deployment reads of an object: io.LimitReader cuts it at the same
\* limit, and an archive without its tail is none.
Limited(a) == IF a # Broken /\ a.size <= MaxSize THEN a ELSE Broken

Replaced(mark) == IF mark = "marker" THEN "value" ELSE mark

Injected(entry, config) ==
    IF entry.name = config
    THEN [entry EXCEPT !.url = Replaced(entry.url), !.auth = Replaced(entry.auth)]
    ELSE entry

KeyEntry == [name |-> KeyName, url |-> "none", auth |-> "none", readable |-> TRUE]

\* inject: every entry is copied, those with the name of the config with their
\* markers replaced; an entry with the key of the target comes last, if the
\* target has a key.
Inject(a, config, keyed) ==
    IF a = Broken \/ ~Readable(a)
    THEN Broken
    ELSE LET copied == [i \in DOMAIN a.entries |-> Injected(a.entries[i], config)]
         IN  IF keyed THEN Append(copied, KeyEntry) ELSE copied

\* What the home directory has for the program after unzip -o, which extracts
\* one entry after the other over what is there: the last entry named config
\* carries the address of the webhook and a token.
Configured(entries, config) ==
    \E i \in DOMAIN entries :
       /\ entries[i].name = config
       /\ \A j \in DOMAIN entries : j > i => entries[j].name # config
       /\ entries[i].url = "value"
       /\ entries[i].auth = "value"

\* The entry that validate looked at is extracted, and then another over it: a
\* second one of the archive, or the key of the target.
Shadowed(entries, config) ==
    \E i, j \in DOMAIN entries : i < j /\ entries[i].name = config /\ entries[j].name = config

\* A marker is left for the program to read.
Unfilled(entries, config) ==
    \E i \in DOMAIN entries : entries[i].name = config /\ "marker" \in {entries[i].url, entries[i].auth}

=============================================================================
