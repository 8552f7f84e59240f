------------------------------ MODULE KeyStore ------------------------------
(***************************************************************************)
(* The Noise state folder of src/noise_store.rs: this client's static key, *)
(* the hub keys it has pinned and its cached PSKs, shared by the processes *)
(* that use one identity; and the key-folder rule of src/transport.rs, by  *)
(* which the folder of an identity file takes over, once, the key and pins *)
(* of the default folder.                                                  *)
(*                                                                         *)
(* Every operation holds the folder's lock, which a process that dies      *)
(* gives back.  A file is written beside its place and moved there, so     *)
(* that it changes in one step, or not at all.                             *)
(***************************************************************************)
EXTENDS Integers, FiniteSets

CONSTANTS
  Procs,        \* processes, or tasks of one
  Nodes,        \* hubs, by node id
  HubKeys,      \* static keys hubs show
  MaxOps,       \* bound: operations begun by each process
  Preseed,      \* may a pin be saved before there is a key: save_noise_pin
  None

StoreAssumption ==
  /\ MaxOps \in Nat /\ Preseed \in BOOLEAN
  /\ None \notin Procs \cup HubKeys \cup Nat

VARIABLES
  key,          \* per folder: its noise_key
  file,         \* per folder and file: the entry of each node
  holder,       \* per folder: who holds .noise.lock
  op,           \* per process: its operation
  at,           \* per process: where in it
  read,         \* per process: what it read of the files
  got,          \* per process: the key load_or_create_noise_key gave it
  begun,        \* per process: operations begun
  fresh,        \* keys generated so far
  kept,         \* history: pins of "own" saved and not forgotten since
  forgotten     \* history: nodes whose pin was forgotten

Folders == {"own", "default"}
Files   == {"pins", "psks"}

procVars  == <<op, at, read, got, begun>>
storeVars == <<key, file, holder, procVars, fresh, kept, forgotten>>

NoEntries == [n \in Nodes |-> None]
NoOp      == [kind |-> "none", node |-> None, file |-> "pins", to |-> None]

(* The default folder may be in use already, with a key the hubs in its    *)
(* pins have met.                                                          *)
Init ==
  /\ \E met \in SUBSET Nodes, k \in HubKeys :
       file = [f \in Folders |-> [x \in Files |-> [n \in Nodes |->
                 IF f = "default" /\ x = "pins" /\ n \in met
                 THEN k ELSE None]]]
  /\ key = [f \in Folders |-> IF f = "default" THEN 0 ELSE None]
  /\ holder = [f \in Folders |-> None]
  /\ op = [p \in Procs |-> NoOp] /\ at = [p \in Procs |-> "idle"]
  /\ read = [p \in Procs |-> NoEntries]
  /\ got = [p \in Procs |-> None] /\ begun = [p \in Procs |-> 0]
  /\ fresh = 0
  /\ kept = NoEntries /\ forgotten = {}

\* A process that is through with its operation keeps nothing of it.
Goto(p, place) ==
  /\ at' = [at EXCEPT ![p] = place]
  /\ op' = IF place = "idle" THEN [op EXCEPT ![p] = NoOp] ELSE op

Drops(p) == read' = [read EXCEPT ![p] = NoEntries]

Release(p, f) == holder' = [holder EXCEPT ![f] = None]

(* lock_state: its five seconds may pass while another holds it.           *)
Lock(p, f) ==
  /\ holder[f] = None
  /\ holder' = [holder EXCEPT ![f] = p]

LockTimesOut(p, f) == holder[f] \notin {None, p}

-----------------------------------------------------------------------------
Begin(p) ==
  /\ at[p] = "idle" /\ begun[p] < MaxOps
  /\ \E o \in   {[kind |-> "start", node |-> n, file |-> "pins", to |-> None] :
                   n \in Nodes}
           \cup {[kind |-> "save", node |-> n, file |-> x, to |-> k] :
                   n \in Nodes, x \in Files, k \in HubKeys}
           \cup {[kind |-> "forget", node |-> n, file |-> x, to |-> None] :
                   n \in Nodes, x \in Files} :
       /\ o.kind = "save" /\ o.file = "pins" => Preseed \/ got[p] # None
       /\ op' = [op EXCEPT ![p] = o]
       /\ at' = [at EXCEPT ![p] = IF o.kind = "start" THEN "adopt" ELSE "edit"]
  /\ begun' = [begun EXCEPT ![p] = @ + 1]
  /\ UNCHANGED <<key, file, holder, read, got, fresh, kept, forgotten>>

(* The process dies, and comes back: nothing it held or staged is left.    *)
Crash(p) ==
  /\ at[p] # "idle"
  /\ at' = [at EXCEPT ![p] = "idle"]
  /\ op' = [op EXCEPT ![p] = NoOp]
  /\ read' = [read EXCEPT ![p] = NoEntries]
  /\ got' = [got EXCEPT ![p] = None]
  /\ holder' = [f \in Folders |-> IF holder[f] = p THEN None ELSE holder[f]]
  /\ UNCHANGED <<key, file, begun, fresh, kept, forgotten>>

-----------------------------------------------------------------------------
(* NoiseChannel::start: adopt_legacy_key, then load_or_create_noise_key.   *)

Empty(entries) == \A n \in Nodes : entries[n] = None

(* Before any lock: is there something to adopt.                           *)
AdoptLooks(p) ==
  /\ at[p] = "adopt"
  /\ Goto(p, IF key.own # None THEN "load" ELSE "legacy")
  /\ UNCHANGED <<key, file, holder, read, got, begun, fresh, kept,
                 forgotten>>

(* The default folder, read under its lock.  One it cannot read copies     *)
(* nothing.                                                                *)
AdoptReads(p) ==
  /\ at[p] = "legacy"
  /\ \/ /\ holder["default"] = None
        /\ IF file["default"]["pins"][op[p].node] = None
           THEN Goto(p, "load") /\ UNCHANGED read
           ELSE /\ Goto(p, "target")
                /\ read' = [read EXCEPT ![p] = file["default"]["pins"]]
     \/ /\ Goto(p, "load")
        /\ UNCHANGED read
  /\ UNCHANGED <<key, file, holder, got, begun, fresh, kept, forgotten>>

AdoptLocks(p) ==
  /\ at[p] = "target"
  /\ \/ Lock(p, "own") /\ Goto(p, "pins") /\ UNCHANGED read
     \/ LockTimesOut(p, "own") /\ Goto(p, "idle") /\ Drops(p)
        /\ UNCHANGED holder
  /\ UNCHANGED <<key, file, got, begun, fresh, kept, forgotten>>

(* Another process may have adopted, or started afresh, meanwhile.  The    *)
(* pins go first.                                                          *)
AdoptPins(p) ==
  /\ at[p] = "pins"
  /\ Drops(p)
  /\ \/ /\ key.own # None
        /\ Goto(p, "load") /\ Release(p, "own")
        /\ UNCHANGED file
     \/ /\ key.own = None
        /\ Goto(p, "key")
        /\ file' = IF Empty(file.own.pins)
                   THEN [file EXCEPT !.own.pins = read[p]] ELSE file
        /\ UNCHANGED holder
     \/ /\ key.own = None /\ Empty(file.own.pins)   \* the write fails
        /\ Goto(p, "idle") /\ Release(p, "own")
        /\ UNCHANGED file
  /\ UNCHANGED <<key, got, begun, fresh, kept, forgotten>>

(* Then the key, unless the write fails, which fails the connect.          *)
AdoptKey(p) ==
  /\ at[p] = "key"
  /\ Release(p, "own")
  /\ \/ /\ key' = IF key.own = None
                  THEN [key EXCEPT !.own = key["default"]] ELSE key
        /\ Goto(p, "load")
     \/ /\ UNCHANGED key
        /\ Goto(p, "idle")
  /\ UNCHANGED <<file, read, got, begun, fresh, kept, forgotten>>

LoadLooks(p) ==
  /\ at[p] = "load"
  /\ Goto(p, IF key.own = None THEN "create" ELSE "read")
  /\ UNCHANGED <<key, file, holder, read, got, begun, fresh, kept,
                 forgotten>>

LoadLocks(p) ==
  /\ at[p] = "load"
  /\ \/ /\ Lock(p, "own")
        /\ Goto(p, IF key.own = None THEN "create" ELSE "read")
     \/ LockTimesOut(p, "own") /\ Goto(p, "idle") /\ UNCHANGED holder
  /\ UNCHANGED <<key, file, read, got, begun, fresh, kept, forgotten>>

LoadReads(p) ==
  /\ at[p] = "read"
  /\ Release(p, "own")
  /\ got' = [got EXCEPT ![p] = key.own]
  /\ Goto(p, "idle")
  /\ UNCHANGED <<key, file, read, begun, fresh, kept, forgotten>>

LoadCreates_Unlinked(p) ==
  /\ at[p] = "create"
  /\ Release(p, "own")
  /\ fresh' = fresh + 1
  /\ key' = [key EXCEPT !.own = fresh']
  /\ got' = [got EXCEPT ![p] = fresh']
  /\ Goto(p, "idle")
  /\ UNCHANGED <<file, read, begun, kept, forgotten>>

(* The new key is published by a link, which does not replace a winner.    *)
LoadCreates(p) ==
  /\ at[p] = "create"
  /\ Release(p, "own")
  /\ Goto(p, "idle")
  /\ \/ /\ fresh' = fresh + 1
        /\ key' = IF key.own = None THEN [key EXCEPT !.own = fresh'] ELSE key
        /\ got' = [got EXCEPT ![p] = key'.own]
     \/ UNCHANGED <<fresh, key, got>> \* the write fails
  /\ UNCHANGED <<file, read, begun, kept, forgotten>>

(* As it would be without the lock and the link.                           *)
Load_Unlocked(p) == LoadLooks(p) \/ LoadReads(p) \/ LoadCreates_Unlinked(p)

Load(p) == LoadLocks(p) \/ LoadReads(p) \/ LoadCreates(p)

-----------------------------------------------------------------------------
(* pin_hub_key, save_cached_psk, forget_noise_pin, forget_cached_psk: one  *)
(* read-modify-write of a file.                                            *)

EditLocks(p) ==
  /\ at[p] = "edit"
  /\ \/ /\ Lock(p, "own")
        /\ read' = [read EXCEPT ![p] = file.own[op[p].file]]
        /\ Goto(p, "write")
     \/ /\ LockTimesOut(p, "own")
        /\ Goto(p, "idle")
        /\ UNCHANGED <<holder, read>>
  /\ UNCHANGED <<key, file, got, begun, fresh, kept, forgotten>>

Refused(p) ==
  /\ op[p].kind = "save" /\ op[p].file = "pins"
  /\ read[p][op[p].node] \notin {None, op[p].to}

(* The whole map is written back; a pin is never replaced.  It may fail.   *)
EditWrites(p) ==
  /\ at[p] = "write"
  /\ Drops(p)
  /\ Release(p, "own") /\ Goto(p, "idle")
  /\ LET o == op[p] IN
     \/ UNCHANGED <<file, kept, forgotten>>
     \/ /\ ~Refused(p)
        /\ file' = [file EXCEPT !.own[o.file] =
                      [read[p] EXCEPT ![o.node] = o.to]]
        /\ IF o.file = "pins"
           THEN /\ kept' = [kept EXCEPT ![o.node] = o.to]
                /\ forgotten' = IF o.kind = "forget"
                                THEN forgotten \cup {o.node} ELSE forgotten
           ELSE UNCHANGED <<kept, forgotten>>
  /\ UNCHANGED <<key, got, begun, fresh>>

Next ==
  \E p \in Procs :
    \/ Begin(p) \/ Crash(p)
    \/ AdoptLooks(p) \/ AdoptReads(p) \/ AdoptLocks(p) \/ AdoptPins(p)
    \/ AdoptKey(p)
    \/ Load(p)
    \/ EditLocks(p) \/ EditWrites(p)

Spec == Init /\ [][Next]_storeVars

-----------------------------------------------------------------------------
TypeOK ==
  /\ key \in [Folders -> Nat \cup {None}]
  /\ file \in [Folders -> [Files -> [Nodes -> HubKeys \cup {None}]]]
  /\ holder \in [Folders -> Procs \cup {None}]
  /\ at \in [Procs -> {"idle", "adopt", "legacy", "target", "pins", "key",
                       "load", "read", "create", "edit", "write"}]
  /\ got \in [Procs -> Nat \cup {None}]

(* All processes that use the folder present one key: the one a process    *)
(* was given stays the folder's, whoever else starts, adopts or dies.      *)
KeysAgree == \A p \in Procs : got[p] # None => key.own = got[p]

(* A saved pin stays until it is forgotten: neither the pin of another hub *)
(* saved meanwhile, nor an adoption, nor a crash undoes it.                *)
NoPinLost ==
  \A n \in Nodes : kept[n] # None => file.own.pins[n] = kept[n]

(* "A key without [the pins] would look like first contact": a folder that *)
(* took over the default folder's key knows the hubs that key has met.     *)
AdoptionWhole ==
  key.own = key["default"] =>
    \A n \in Nodes \ forgotten :
      file["default"].pins[n] # None => file.own.pins[n] # None

(* The folder stays whole, whoever crashes and whoever else writes.  The   *)
(* adoption is whole where pins are saved with a key at hand: a pin saved  *)
(* before (save_noise_pin) keeps those of the default folder out.          *)
StoreAgrees == KeysAgree /\ NoPinLost /\ (Preseed \/ AdoptionWhole)
=============================================================================
