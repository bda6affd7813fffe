-------------------------- MODULE SourceLifecycle --------------------------
(***************************************************************************)
(* What a runtime source promises to whoever reads it and to whoever       *)
(* deletes it, without its jobs, uploads, bytes or leases.                 *)
(*                                                                         *)
(* A source has a current version; what was prepared from that version may *)
(* be offered to readers.  A prepared thing that is replaced, or that was  *)
(* there when a deletion was asked for, is retired: it is never offered    *)
(* again, whether or not the deletion is cancelled.  A deletion can be     *)
(* cancelled until destruction starts and never afterwards.                *)
(***************************************************************************)
EXTENDS Integers

CONSTANTS
    Versions,   \* source version ids
    NoVersion,  \* the source has no version yet, or no longer
    Kinds       \* kinds of prepared thing

VARIABLES
    phase,   \* where the source is between active and deleted
    current, \* the current version
    offered, \* what readers may be given
    retired  \* what they may never be given again

lifecycleVars == <<phase, current, offered, retired>>

Things == Versions \X Kinds

LifecycleInit ==
    /\ phase = "active"
    /\ current \in Versions \cup {NoVersion}
    /\ offered = {}
    /\ retired = {}

\* Something of the current version is made ready or put back to work.
Offer ==
    /\ phase = "active"
    /\ offered' \in SUBSET (({current} \X Kinds) \ retired)
    /\ UNCHANGED <<phase, current, retired>>

\* A new version takes over; everything of the old one is retired at once.
Refresh ==
    /\ phase = "active"
    /\ \E v \in Versions \ {current} :
           /\ \A k \in Kinds : <<v, k>> \notin retired
           /\ current' = v
    /\ offered' = {}
    /\ retired' = retired \cup (({current} \cap Versions) \X Kinds)
    /\ UNCHANGED phase

Freeze ==
    /\ phase = "active"
    /\ phase' = "frozen"
    /\ offered' = {}
    /\ \E begun \in SUBSET ({current} \X Kinds) :
           /\ offered \subseteq begun
           /\ retired' = retired \cup (begun \cap Things)
    /\ UNCHANGED current

Thaw ==
    /\ phase = "frozen"
    /\ phase' = "active"
    /\ UNCHANGED <<current, offered, retired>>

Destroy ==
    /\ phase = "frozen"
    /\ phase' = "deleting"
    /\ retired' = Things
    /\ UNCHANGED <<current, offered>>

GiveUp ==
    /\ phase = "deleting"
    /\ phase' = "partially_deleted"
    /\ UNCHANGED <<current, offered, retired>>

Retry ==
    /\ phase = "partially_deleted"
    /\ phase' = "deleting"
    /\ UNCHANGED <<current, offered, retired>>

Erase ==
    /\ phase = "deleting"
    /\ phase' = "deleted"
    /\ current' = NoVersion
    /\ UNCHANGED <<offered, retired>>

LifecycleNext ==
    Offer \/ Refresh \/ Freeze \/ Thaw \/ Destroy \/ GiveUp \/ Retry \/ Erase

LifecycleSpec == LifecycleInit /\ [][LifecycleNext]_lifecycleVars

============================================================================
