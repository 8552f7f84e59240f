--------------------------- MODULE InventoryCache ---------------------------
(***************************************************************************)
(* `InventoryCache` of inventory.rs: inventories kept on disk by key, used *)
(* by several programs of which any may stop between two steps, on a       *)
(* machine that may lose power.  The file system is external: a rename is  *)
(* atomic but may be lost with the power, a file's content is safe once    *)
(* synced.  A key is a source (the mode and the path of an identity file)  *)
(* with the host that file names, or "local" if none can be read in it;    *)
(* its digest is taken to tell keys apart.                                 *)
(***************************************************************************)
EXTENDS Naturals, Sequences

CONSTANTS
    Readers, Writers,   \* programs that load, and that store
    Sources, Hosts,
    None,
    Ttl,
    MaxFiles, MaxTime   \* bounds: stores, clock

\* A hub whose name is "local" would share its key with the identity files no
\* host can be read in.
InventoryCacheAssumption ==
    /\ Ttl \in Nat /\ MaxFiles \in Nat /\ MaxTime \in Nat
    /\ Readers \cap Writers = {} /\ None \notin Hosts /\ "local" \notin Hosts

Programs == Readers \cup Writers

VARIABLES
    now,
    named,          \* by source: the host its identity file names, or None
    files,          \* every file made: what it holds, how much of it, its mtime
    scratch,        \* the ones that have their scratch name
    entry,          \* by key: the file at `path(key)`, or 0
    past,           \* by key: what a loss of power may leave there
    step, key, about,   \* by program: its step, its key, and what it is about
    file,           \* by program: the file it has open or makes, or 0
    opened,         \* by program: when it opened the file
    crashed         \* history: some program or the power stopped

cacheVars == <<now, named, files, scratch, entry, past, step, key, about, file,
               opened, crashed>>

Keys == Sources \X (Hosts \cup {"local"})

InventoryCacheInit ==
    /\ now = 0 /\ named \in [Sources -> Hosts]
    /\ files = <<>> /\ scratch = {}
    /\ entry = [k \in Keys |-> 0] /\ past = [k \in Keys |-> {0}]
    /\ step = [p \in Programs |-> "idle"]
    /\ key = [p \in Programs |-> None] /\ about = [p \in Programs |-> None]
    /\ file = [p \in Programs |-> 0] /\ opened = [p \in Programs |-> 0]
    /\ crashed = FALSE

Goes(p, from, to) == step[p] = from /\ step' = [step EXCEPT ![p] = to]

disk == <<files, scratch, entry, past>>
world == <<now, named, crashed>>
held == <<key, about, file, opened>>

\* A call that has ended is forgotten.
Ends(p, from) ==
    /\ Goes(p, from, "idle")
    /\ key' = [key EXCEPT ![p] = None] /\ about' = [about EXCEPT ![p] = None]
    /\ file' = [file EXCEPT ![p] = 0] /\ opened' = [opened EXCEPT ![p] = 0]

-----------------------------------------------------------------------------
\* The clock goes on; the identity file comes to name another host, or none that
\* can be read while it is rewritten.
Tick ==
    /\ now < MaxTime /\ now' = now + 1
    /\ UNCHANGED <<named, crashed, disk, step, held>>

Renames ==
    /\ \E s \in Sources, h \in Hosts \cup {None} : named' = [named EXCEPT ![s] = h]
    /\ UNCHANGED <<now, crashed, disk, step, held>>

\* `key`, with `identity_host`.
Key(s) == <<s, IF named[s] = None THEN "local" ELSE named[s]>>

\* The caller takes its key.  What it stores is of the host it talks to: the one
\* the file names, or any if none could be read in it.
TakeKey(p) ==
    /\ Goes(p, "idle", "keyed")
    /\ \E s \in Sources :
          /\ key' = [key EXCEPT ![p] = Key(s)]
          /\ \E h \in IF named[s] = None /\ p \in Writers THEN Hosts ELSE {named[s]} :
                about' = [about EXCEPT ![p] = <<s, h>>]
    /\ UNCHANGED <<world, disk, file, opened>>

-----------------------------------------------------------------------------
(* store: a scratch file of its own, written, synced, renamed; what is     *)
(* left under the scratch name at the end, however it ended, is removed.   *)

Creates(p) ==
    /\ Goes(p, "keyed", "created") /\ Len(files) < MaxFiles
    /\ files' = Append(files, [about |-> about[p], whole |-> FALSE,
                               synced |-> FALSE, at |-> now])
    /\ file' = [file EXCEPT ![p] = Len(files')]
    /\ scratch' = scratch \cup {Len(files')}
    /\ UNCHANGED <<world, entry, past, key, about, opened>>

\* A step of a store fails: the folder cannot be made, the disk is full.
StoreFails(p) ==
    /\ \/ Ends(p, "keyed")
       \/ \E at \in {"created", "written", "synced"} : Goes(p, at, "removing") /\ UNCHANGED held
    /\ UNCHANGED <<world, disk>>

Writes(p) ==
    /\ Goes(p, "created", "written")
    /\ files' = [files EXCEPT ![file[p]] = [@ EXCEPT !.whole = TRUE, !.at = now]]
    /\ UNCHANGED <<world, scratch, entry, past, held>>

Syncs(p) ==
    /\ Goes(p, "written", "synced")
    /\ files' = [files EXCEPT ![file[p]] = [@ EXCEPT !.synced = TRUE]]
    /\ UNCHANGED <<world, scratch, entry, past, held>>

Publishes(p) ==
    /\ Goes(p, "synced", "removing")
    /\ entry' = [entry EXCEPT ![key[p]] = file[p]]
    /\ past' = [past EXCEPT ![key[p]] = @ \cup {file[p]}]
    /\ scratch' = scratch \ {file[p]}
    /\ UNCHANGED <<world, files, held>>

Removes(p) ==
    /\ Ends(p, "removing")
    /\ scratch' = scratch \ {file[p]}
    /\ UNCHANGED <<world, files, entry, past>>

-----------------------------------------------------------------------------
(* load: the size and the age are those of the file that is open.          *)

Opens(p) ==
    /\ Goes(p, "keyed", "opened") /\ entry[key[p]] # 0
    /\ file' = [file EXCEPT ![p] = entry[key[p]]]
    /\ opened' = [opened EXCEPT ![p] = now]
    /\ UNCHANGED <<world, disk, key, about>>

FindsNothing(p) ==
    /\ Ends(p, "keyed") /\ entry[key[p]] = 0
    /\ UNCHANGED <<world, disk>>

\* Too large a file may be refused at any age.
Checks(p) ==
    /\ \/ Goes(p, "opened", "checked") /\ now - files[file[p]].at <= Ttl /\ UNCHANGED held
       \/ Ends(p, "opened")
    /\ UNCHANGED <<world, disk>>

\* `from_json`: half an inventory is none.
Reads(p) ==
    /\ \/ Goes(p, "checked", "given") /\ files[file[p]].whole /\ UNCHANGED held
       \/ Ends(p, "checked") /\ ~files[file[p]].whole
    /\ UNCHANGED <<world, disk>>

Uses(p) == Ends(p, "given") /\ UNCHANGED <<world, disk>>

-----------------------------------------------------------------------------
Crash(p) ==
    /\ \E at \in {"created", "written", "synced", "removing"} : Ends(p, at)
    /\ crashed' = TRUE
    /\ UNCHANGED <<now, named, disk>>

\* What was not synced may be gone, and so may the last renames.
PowerLoss ==
    /\ ~crashed /\ crashed' = TRUE
    /\ step' = [p \in Programs |-> "idle"]
    /\ key' = [p \in Programs |-> None] /\ about' = key'
    /\ file' = [p \in Programs |-> 0] /\ opened' = file'
    /\ files' = [i \in DOMAIN files |->
                    [files[i] EXCEPT !.whole = files[i].whole /\ files[i].synced]]
    /\ entry' \in {e \in [Keys -> 0..Len(files)] : \A k \in Keys : e[k] \in past[k]}
    /\ past' = [k \in Keys |-> {entry'[k]}]
    /\ UNCHANGED <<now, named, scratch>>

Store(p) ==
    TakeKey(p) \/ Creates(p) \/ StoreFails(p) \/ Writes(p) \/ Syncs(p) \/ Publishes(p)
    \/ Removes(p) \/ Crash(p)

Load(p) == TakeKey(p) \/ Opens(p) \/ FindsNothing(p) \/ Checks(p) \/ Reads(p) \/ Uses(p)

InventoryCacheNext ==
    \/ Tick \/ Renames \/ PowerLoss
    \/ \E p \in Writers : Store(p)
    \/ \E p \in Readers : Load(p)

InventoryCacheSpec == InventoryCacheInit /\ [][InventoryCacheNext]_cacheVars

-----------------------------------------------------------------------------
\* What the cache holds under a key is a whole inventory, whoever stopped or
\* failed in the middle of a store; and only a program that was stopped leaves
\* a scratch file behind.
EntriesAreWhole ==
    /\ \A k \in Keys : entry[k] # 0 => files[entry[k]].whole
    /\ ~crashed => \A i \in scratch : \E p \in Writers : file[p] = i /\ step[p] # "idle"

\* A load hands over a whole inventory of the source its key was taken for, and
\* of the host the identity file named then, if it could be read; and one that
\* was no older than the time to live when the load opened it.
LoadIsOwn ==
    \A p \in Readers : step[p] = "given" =>
        /\ files[file[p]].whole
        /\ about[p][2] # None => files[file[p]].about = about[p]
        /\ opened[p] <= files[file[p]].at + Ttl

\* What is kept on disk and handed over stays whole and its owner's.
CacheAgrees == EntriesAreWhole /\ LoadIsOwn
=============================================================================
