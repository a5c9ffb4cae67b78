-------------------------- MODULE ProcessCreation --------------------------
(***************************************************************************)
(* ProcessSupervisor.create (src/src/process.ts, 626-739) under the        *)
(* creation interlock of its lease method (505-531).                       *)
(*                                                                         *)
(* A creation holds the custody lease of .process-creation (HostLease: one *)
(* holder, freed by death) and, inside it, keeps processes/.lock occupied  *)
(* against older runtimes.  It claims a name with a directory and a marker *)
(* naming the exact record intended, publishes the head and drops the      *)
(* marker.  A creation that died in between may be resumed by an exact     *)
(* repetition, and by nothing else.  The one thing no repetition gets past *)
(* is the scratch file of hostWrite (host-state.ts, 65-81): written beside *)
(* processes/.lock, it is in the directory whose names every creation      *)
(* reads, and names() refuses what is not a directory (609-617).           *)
(***************************************************************************)
EXTENDS Naturals, FiniteSets

CONSTANTS
    Creator,        \* create calls under way at a time
    OldRuntime,     \* runtimes that know only processes/.lock
    Name,           \* process names
    Definition,     \* manifest, arguments and budget of an initial record
    Nonce,          \* random interlock nonces
    MaxProcesses,   \* names of one store (1024 in the code)
    MaxArchived,    \* abandoned interlocks kept (256 in the code)
    MaxGenerations, \* how far a created process is followed
    MaxFaults,      \* errors and deaths, bounded for model checking
    None, OldMarker

ASSUME CreationBounds ==
    MaxProcesses \in Nat /\ MaxArchived \in Nat /\ MaxGenerations \in Nat /\ MaxFaults \in Nat
ASSUME CreationDistinct ==
    /\ None \notin Creator \union Definition \union Nonce
    /\ None \notin Name \X Definition /\ None \notin [def : Definition, gen : Nat]
    /\ OldMarker \notin Nonce \union {None}

VARIABLES
    \* on disk
    dirs,       \* names with a directory
    marker,     \* marker[n]: the definition .creating.json claims, or None
    head,       \* head[n]: definition and generation published, or None
    interlock,  \* content of processes/.lock
    archived,   \* nonces under creation-owners
    strays,     \* scratch files in processes/ of creations that ended
    custody,    \* holder of the custody lease
    \* the runtimes
    pc, want, mine,
    old,        \* older runtimes holding the interlock
    faults,
    made        \* history: creations that published their head

store == <<dirs, marker, head>>
lockfile == <<interlock, archived, strays>>
locals == <<want, mine>>
vars == <<store, lockfile, custody, pc, locals, old, faults, made>>

(* A .tmp-<hex> beside .lock; any number of them stop names() alike.       *)
Scratch == ".tmp"

(* Where the interlock is held.                                            *)
Critical == {"admit", "mkdir", "claim", "publish", "unmark", "release"}
Location == Critical \union
    {"idle", "custody", "read", "archive", "unlink", "occupy", "link", "unscratch", "free"}

TypeOK ==
    /\ dirs \subseteq Name
    /\ marker \in [Name -> Definition \union {None}]
    /\ \A n \in Name : head[n] # None => head[n] \in [def : Definition, gen : 0..MaxGenerations]
    /\ interlock \in Nonce \union {None, OldMarker}
    /\ archived \subseteq Nonce /\ Cardinality(archived) <= MaxArchived
    /\ strays \subseteq {Scratch}
    /\ custody \in Creator \union {None}
    /\ pc \in [Creator -> Location]
    /\ \A c \in Creator : pc[c] # "idle" => want[c] \in Name \X Definition
    /\ mine \in [Creator -> Nonce \union {None}]
    /\ old \subseteq OldRuntime
    /\ faults \in 0..MaxFaults
    /\ made \subseteq Name \X Definition

Init ==
    /\ dirs = {}
    /\ marker = [n \in Name |-> None] /\ head = [n \in Name |-> None]
    /\ interlock = None /\ archived = {} /\ strays = {} /\ custody = None
    /\ pc = [c \in Creator |-> "idle"]
    /\ want = [c \in Creator |-> None] /\ mine = [c \in Creator |-> None]
    /\ old = {} /\ faults = 0 /\ made = {}

Goto(c, l) == pc' = [pc EXCEPT ![c] = l]
NameOf(c) == want[c][1]
DefOf(c) == want[c][2]

(* create returns or throws.                                               *)
End(c) ==
    /\ Goto(c, "idle")
    /\ want' = [want EXCEPT ![c] = None] /\ mine' = [mine EXCEPT ![c] = None]
Abandon(c) == End(c) /\ custody' = None
-----------------------------------------------------------------------------
Call(c, n, d) ==
    /\ pc[c] = "idle"
    /\ want' = [want EXCEPT ![c] = <<n, d>>]
    /\ Goto(c, "custody")
    /\ UNCHANGED <<store, lockfile, custody, mine, old, faults, made>>

(* A held custody refuses at once.                                         *)
TakeCustody(c) ==
    /\ pc[c] = "custody"
    /\ IF custody = None THEN custody' = c /\ Goto(c, "read") /\ UNCHANGED locals
       ELSE End(c) /\ UNCHANGED custody
    /\ UNCHANGED <<store, lockfile, old, faults, made>>

(* What is in the way: nothing, a marker of a creation that died, which is *)
(* archived while there is room, or an older runtime's.                    *)
ReadInterlock(c) ==
    /\ pc[c] = "read"
    /\ IF interlock = None
       THEN Goto(c, "occupy") /\ UNCHANGED <<custody, locals>>
       ELSE IF interlock = OldMarker \/ (Cardinality(archived) >= MaxArchived /\ interlock \notin archived)
       THEN Abandon(c)
       ELSE Goto(c, "archive") /\ UNCHANGED <<custody, locals>>
    /\ UNCHANGED <<store, lockfile, old, faults, made>>

Archive(c) ==
    /\ pc[c] = "archive"
    /\ archived' = archived \union {interlock}
    /\ Goto(c, "unlink")
    /\ UNCHANGED <<store, interlock, strays, custody, locals, old, faults, made>>

UnlinkPrior(c) ==
    /\ pc[c] = "unlink"
    /\ interlock' = None
    /\ Goto(c, "occupy")
    /\ UNCHANGED <<store, archived, strays, custody, locals, old, faults, made>>

(* hostWrite refuses a path that holds another marker, or writes its       *)
(* scratch file beside it.                                                 *)
Occupy(c) ==
    /\ pc[c] = "occupy"
    /\ IF interlock = None THEN Goto(c, "link") /\ UNCHANGED <<custody, locals>>
       ELSE Abandon(c)
    /\ UNCHANGED <<store, lockfile, old, faults, made>>

(* Mistake: an older runtime's marker is replaced.                         *)
LinkOver(c) ==
    /\ pc[c] = "link"
    /\ \E x \in Nonce \ archived : interlock' = x /\ mine' = [mine EXCEPT ![c] = x]
    /\ Goto(c, "unscratch")
    /\ UNCHANGED <<store, archived, strays, custody, want, old, faults, made>>

(* The link fails where an older runtime has come in; hostWrite then       *)
(* withdraws the scratch file and throws.                                  *)
Link(c) ==
    /\ pc[c] = "link"
    /\ IF interlock = None
       THEN /\ \E x \in Nonce \ archived : interlock' = x /\ mine' = [mine EXCEPT ![c] = x]
            /\ Goto(c, "unscratch")
            /\ UNCHANGED <<custody, want>>
       ELSE Abandon(c) /\ UNCHANGED interlock
    /\ UNCHANGED <<store, archived, strays, old, faults, made>>

Unscratch(c) ==
    /\ pc[c] = "unscratch"
    /\ Goto(c, "admit")
    /\ UNCHANGED <<store, lockfile, custody, locals, old, faults, made>>

(* Mistakes: only the marker is looked at; any marker is taken for one's   *)
(* own; an existing directory is never resumed.                            *)
AdmitMarked(c) ==
    /\ pc[c] = "admit"
    /\ Goto(c, IF strays # {} THEN "release"
               ELSE IF NameOf(c) \in dirs
               THEN IF marker[NameOf(c)] = DefOf(c) THEN "publish" ELSE "release"
               ELSE IF Cardinality(dirs) < MaxProcesses THEN "mkdir" ELSE "release")
    /\ UNCHANGED <<store, lockfile, custody, locals, old, faults, made>>

AdmitAnyMarker(c) ==
    /\ pc[c] = "admit"
    /\ Goto(c, IF strays # {} THEN "release"
               ELSE IF NameOf(c) \in dirs
               THEN IF head[NameOf(c)] = None /\ marker[NameOf(c)] # None THEN "publish" ELSE "release"
               ELSE IF Cardinality(dirs) < MaxProcesses THEN "mkdir" ELSE "release")
    /\ UNCHANGED <<store, lockfile, custody, locals, old, faults, made>>

AdmitFreshOnly(c) ==
    /\ pc[c] = "admit"
    /\ Goto(c, IF strays = {} /\ NameOf(c) \notin dirs /\ Cardinality(dirs) < MaxProcesses THEN "mkdir" ELSE "release")
    /\ UNCHANGED <<store, lockfile, custody, locals, old, faults, made>>

(* Under the interlock: names() throws at a scratch file; an existing      *)
(* directory is resumed only without a head and with a marker for the      *)
(* exact record, also at the limit of names; a new one must fit.           *)
Resumable(n, d) == head[n] = None /\ marker[n] = d
Admit(c) ==
    /\ pc[c] = "admit"
    /\ Goto(c, IF strays # {} THEN "release"
               ELSE IF NameOf(c) \in dirs
               THEN IF Resumable(NameOf(c), DefOf(c)) THEN "publish" ELSE "release"
               ELSE IF Cardinality(dirs) < MaxProcesses THEN "mkdir" ELSE "release")
    /\ UNCHANGED <<store, lockfile, custody, locals, old, faults, made>>

Mkdir(c) ==
    /\ pc[c] = "mkdir"
    /\ dirs' = dirs \union {NameOf(c)}
    /\ Goto(c, "claim")
    /\ UNCHANGED <<marker, head, lockfile, custody, locals, old, faults, made>>

Claim(c) ==
    /\ pc[c] = "claim"
    /\ marker' = [marker EXCEPT ![NameOf(c)] = DefOf(c)]
    /\ Goto(c, "publish")
    /\ UNCHANGED <<dirs, head, lockfile, custody, locals, old, faults, made>>

(* The initial record becomes the head.                                    *)
Publish(c) ==
    /\ pc[c] = "publish"
    /\ head' = [head EXCEPT ![NameOf(c)] = [def |-> DefOf(c), gen |-> 0]]
    /\ made' = made \union {want[c]}
    /\ Goto(c, "unmark")
    /\ UNCHANGED <<dirs, marker, lockfile, custody, locals, old, faults>>

Unmark(c) ==
    /\ pc[c] = "unmark"
    /\ marker' = [marker EXCEPT ![NameOf(c)] = None]
    /\ Goto(c, "release")
    /\ UNCHANGED <<dirs, head, lockfile, custody, locals, old, faults, made>>

(* Only a marker that is still one's own is removed.                       *)
Release(c) ==
    /\ pc[c] = "release"
    /\ interlock' = IF interlock = mine[c] THEN None ELSE interlock
    /\ Goto(c, "free")
    /\ UNCHANGED <<store, archived, strays, custody, locals, old, faults, made>>

Free(c) ==
    /\ pc[c] = "free"
    /\ Abandon(c)
    /\ UNCHANGED <<store, lockfile, old, faults, made>>

(* A file operation throws: the finally clauses still run.  While the      *)
(* scratch file is there it may be what could not be written or removed,   *)
(* and then it stays.                                                      *)
Throw(c) ==
    /\ faults < MaxFaults /\ faults' = faults + 1
    /\ \/ /\ pc[c] \in Critical \ {"release"}
          /\ Goto(c, "release")
          /\ UNCHANGED <<strays, custody, locals>>
       \/ /\ pc[c] \in {"read", "archive", "unlink", "occupy", "release"}
          /\ Abandon(c)
          /\ UNCHANGED strays
       \/ /\ pc[c] \in {"link", "unscratch"}
          /\ strays' \in {strays, {Scratch}}
          /\ Abandon(c)
    /\ UNCHANGED <<store, interlock, archived, old, made>>

(* The process dies; the operating system frees the custody.               *)
Crash(c) ==
    /\ faults < MaxFaults /\ faults' = faults + 1
    /\ pc[c] \notin {"idle", "custody"}
    /\ strays' = IF pc[c] \in {"link", "unscratch"} THEN {Scratch} ELSE strays
    /\ Abandon(c)
    /\ UNCHANGED <<store, interlock, archived, old, made>>

(* The process that was created goes its way (ProcessDispatch).            *)
Dispatch(n) ==
    /\ head[n] # None /\ head[n].gen < MaxGenerations
    /\ head' = [head EXCEPT ![n].gen = @ + 1]
    /\ UNCHANGED <<dirs, marker, lockfile, custody, pc, locals, old, faults, made>>

(* An older runtime creates exclusively under the same path, without a     *)
(* marker for its record; an operator removes what it leaves when it dies. *)
OldAcquire(o) ==
    /\ o \notin old /\ interlock = None
    /\ interlock' = OldMarker /\ old' = old \union {o}
    /\ UNCHANGED <<store, archived, strays, custody, pc, locals, faults, made>>

OldCreate(o, n, d) ==
    /\ o \in old /\ n \notin dirs /\ Cardinality(dirs) < MaxProcesses
    /\ dirs' = dirs \union {n}
    /\ head' = [head EXCEPT ![n] = [def |-> d, gen |-> 0]]
    /\ made' = made \union {<<n, d>>}
    /\ UNCHANGED <<marker, lockfile, custody, pc, locals, old, faults>>

OldRelease(o) ==
    /\ o \in old
    /\ interlock' = None /\ old' = old \ {o}
    /\ UNCHANGED <<store, archived, strays, custody, pc, locals, faults, made>>

OldCrash(o) ==
    /\ o \in old
    /\ old' = old \ {o}
    /\ UNCHANGED <<store, lockfile, custody, pc, locals, faults, made>>

Reconcile ==
    /\ interlock = OldMarker /\ old = {}
    /\ interlock' = None
    /\ UNCHANGED <<store, archived, strays, custody, pc, locals, old, faults, made>>
-----------------------------------------------------------------------------
Step(c) ==
    \/ TakeCustody(c) \/ ReadInterlock(c) \/ Archive(c) \/ UnlinkPrior(c)
    \/ Occupy(c) \/ Link(c) \/ Unscratch(c)
    \/ Admit(c) \/ Mkdir(c) \/ Claim(c) \/ Publish(c) \/ Unmark(c) \/ Release(c) \/ Free(c)

Next ==
    \/ \E c \in Creator :
          \/ \E n \in Name, d \in Definition : Call(c, n, d)
          \/ Step(c) \/ Throw(c) \/ Crash(c)
    \/ \E n \in Name : Dispatch(n)
    \/ \E o \in OldRuntime :
          \/ OldAcquire(o) \/ OldRelease(o) \/ OldCrash(o)
          \/ \E n \in Name, d \in Definition : OldCreate(o, n, d)
    \/ Reconcile

Spec == Init /\ [][Next]_vars

(* A creation under way goes on, and whoever was interrupted repeats the   *)
(* exact creation.                                                         *)
FairSpec ==
    /\ Spec
    /\ \A c \in Creator : WF_vars(Step(c))
    /\ \A n \in Name, d \in Definition :
          SF_vars(\E c \in Creator : Resumable(n, d) /\ Call(c, n, d))
-----------------------------------------------------------------------------
(* One creation at a time is past the interlock, an older runtime's        *)
(* included (process.ts, 505-507).                                         *)
Inside == {c \in Creator : pc[c] \in Critical} \union old
CreationExclusive == \A x, y \in Inside : x = y

(* A published process is never published again: no repetition or          *)
(* resumption takes it back to its initial record (688-689).               *)
NeverRewound ==
    [][\A n \in Name : head[n] # None =>
          head'[n] # None /\ head'[n].def = head[n].def /\ head'[n].gen >= head[n].gen]_vars

(* Whatever is interrupted, the names stay within the bound names() reads  *)
(* to, and each belongs to the definition that claimed it first, as        *)
(* marker, head and every successful answer say (618-619, 684-703, 724).   *)
(* This is about directories only: a scratch file left beside them makes   *)
(* names() throw all the same (strays).                                    *)
ClaimsKept ==
    /\ Cardinality(dirs) <= MaxProcesses
    /\ \A n \in Name :
          /\ marker[n] # None /\ head[n] # None => head[n].def = marker[n]
          /\ \A d \in Definition : <<n, d>> \in made => head[n].def = d

(* An interrupted creation is completed by repeating it (684-722), but for *)
(* two ends: a full archive keeps an abandoned interlock in place          *)
(* (518-520), and a creation that died inside hostWrite of the interlock   *)
(* has left a scratch file at which every repetition's names() throws      *)
(* (609-617, 672).  The interlock refuses at once whoever meets it, so     *)
(* this is for a host that is in the end left alone: no older runtime, and *)
(* nobody else creating.                                                   *)
Stranded == interlock \notin archived \union {None} /\ Cardinality(archived) >= MaxArchived
Undisturbed ==
    \E c \in Creator :
        <>[](old = {} /\ interlock # OldMarker /\ \A x \in Creator \ {c} : pc[x] = "idle")
InterruptedResumes ==
    \A n \in Name, d \in Definition :
        Undisturbed => (Resumable(n, d) ~> (head[n] # None \/ Stranded \/ strays # {}))
=============================================================================
