---------------------------- MODULE RuntimeConfig ----------------------------
(***************************************************************************)
(* Several programs that change one runtime group's configuration:         *)
(* `update_runtime_group_config` of control.rs, a deep merge under a       *)
(* revision that is retried on a conflict, and                             *)
(* `replace_runtime_group_config`, which has no precondition.  Any answer  *)
(* may be lost after it took effect.                                       *)
(***************************************************************************)
EXTENDS Naturals, FiniteSets

CONSTANTS
    Writers,        \* control planes
    Leaves,         \* paths of a configuration that hold a value
    None,
    Exact, Inexact, \* values; one of Inexact is a number no double keeps
    Attempts,       \* three
    MaxRevision     \* bound: writes the API accepts

RuntimeConfigAssumption ==
    /\ Attempts \in Nat \ {0} /\ MaxRevision \in Nat
    /\ None \notin Exact \cup Inexact /\ Exact \cap Inexact = {}

VARIABLES
    config,         \* the API: the value at each leaf
    revision,       \* the API: changes with every write
    said,           \* what the writes accepted so far say of each leaf
    personas,       \* the API: the writer whose personas are in force
    work            \* each writer's call

configVars == <<config, revision, said, personas, work>>

Values == Exact \cup Inexact

\* A value per leaf; None where a delta or a configuration says nothing.
Configs == [Leaves -> Values \cup {None}]

Nothing == [l \in Leaves |-> None]

Free == [doing |-> "nothing", delta |-> Nothing, personas |-> FALSE,
         base |-> Nothing, seen |-> 0, attempt |-> 0, answer |-> "none"]

RuntimeConfigInit ==
    /\ config \in Configs /\ revision = 1 /\ said = config /\ personas = None
    /\ work = [w \in Writers |-> Free]

\* validate_config_numbers
Safe(c) == \A l \in Leaves : c[l] \notin Inexact

\* merge_runtime_config: what the delta names, over what was there.
Merge(base, delta) == [l \in Leaves |-> IF delta[l] = None THEN base[l] ELSE delta[l]]

Finish(w, answer) == work' = [work EXCEPT ![w] = [Free EXCEPT !.answer = answer]]

groupVars == <<config, revision, said, personas>>

-----------------------------------------------------------------------------
(* update_runtime_group_config                                             *)

Update(w) ==
    /\ work[w].doing = "nothing"
    /\ \E d \in Configs \ {Nothing}, p \in BOOLEAN :
          work' = [work EXCEPT ![w] =
                      IF Safe(d)
                      THEN [Free EXCEPT !.doing = "read", !.delta = d,
                                        !.personas = p, !.attempt = 1]
                      ELSE [Free EXCEPT !.answer = "refused"]]
    /\ UNCHANGED groupVars

\* Every attempt merges into what it has just read.
Rebase(w) == config

\* The snapshot: its configuration and its revision.  An API that names no
\* revision, or a base that holds an inexact number, ends the call unwritten.
ReadConfig(w) ==
    /\ work[w].doing = "read"
    /\ \/ /\ Safe(config)
          /\ work' = [work EXCEPT ![w].doing = "write", ![w].base = Rebase(w),
                                  ![w].seen = revision]
       \/ ~Safe(config) /\ Finish(w, "refused")
       \/ Finish(w, "failed")
    /\ UNCHANGED groupVars

Accept(merged, delta) ==
    /\ revision < MaxRevision
    /\ config' = merged /\ revision' = revision + 1
    /\ said' = Merge(said, delta)

\* The PUT names the revision that was read.
Matches(w) == work[w].seen = revision

PutConfig(w) ==
    /\ work[w].doing = "write"
    /\ \/ /\ Matches(w)
          /\ Accept(Merge(work[w].base, work[w].delta), work[w].delta)
          /\ personas' = IF work[w].personas THEN w ELSE personas
          /\ \E a \in {"ok", "failed"} : Finish(w, a)
       \/ /\ ~Matches(w)
          /\ IF work[w].attempt < Attempts
             THEN work' = [work EXCEPT ![w].doing = "read", ![w].attempt = @ + 1]
             ELSE Finish(w, "conflict")
          /\ UNCHANGED groupVars
       \/ Finish(w, "failed") /\ UNCHANGED groupVars

\* replace_runtime_group_config: an explicit replacement, unconditional, of
\* any numbers.
Replace(w) ==
    /\ work[w].doing = "nothing"
    /\ \E c \in Configs, p \in BOOLEAN :
          /\ revision < MaxRevision
          /\ config' = c /\ said' = c /\ revision' = revision + 1
          /\ personas' = IF p THEN w ELSE personas
    /\ \E a \in {"ok", "failed"} : Finish(w, a)

RuntimeConfigNext ==
    \E w \in Writers : Update(w) \/ ReadConfig(w) \/ PutConfig(w) \/ Replace(w)

RuntimeConfigSpec == RuntimeConfigInit /\ [][RuntimeConfigNext]_configVars

-----------------------------------------------------------------------------
\* No write is lost: the configuration is what the accepted writes say of it,
\* one after the other.  A merge that two programs make at once undoes
\* nothing of the other's, however often each conflicts and whichever answers
\* are lost.
NoLostUpdate == config = said

\* A merge never writes back a number it cannot keep: a configuration that
\* holds one changes only by an explicit replacement.
InexactIsLeftAlone ==
    [][\A w \in Writers :
          PutConfig(w) /\ config' # config =>
             \A l \in Leaves : config[l] \in Inexact => config'[l] = config[l]]_configVars
=============================================================================
